---- MODULE Spec2Model ----
(***************************************************************************)
(* A model of the subscription registry and dispatch core of               *)
(* strictly-typed-events: EventEmitter (src/src/EventEmitter.ts) and its   *)
(* base class AbstractEventSource (src/src/AbstractEventSource.ts).        *)
(*                                                                         *)
(* The program is single threaded.  on, once, onceAsPromise, subscribe and *)
(* cancel run to completion without calling user code, so each is one      *)
(* action, whether the method is called on the emitter or on the view that *)
(* toEventSource returns.  An emit calls user handlers, and a handler may  *)
(* call back into the emitter, so an emit is a frame on a call stack: one  *)
(* step per iteration of its for-in loop, and the handler that is running  *)
(* may perform any operation of the emitter before it returns a value or   *)
(* throws.  Nothing in the emitter catches: an exception leaves every emit *)
(* it passes through.                                                      *)
(***************************************************************************)
EXTENDS Integers, Sequences, FiniteSets, TLC

(***************************************************************************)
(* Bounds of the model.                                                    *)
(***************************************************************************)
MaxSubs == 3
MaxDepth == 2
MaxWideDepth == 1
MaxWideCalls == 2
MaxCalls == 3
MaxPromises == 1

(***************************************************************************)
(* Event names: two strings and one unique symbol, as in the Events        *)
(* interface of EventEmitter.test.ts.  A symbol is equal to no string.     *)
(***************************************************************************)
StringNames == {"foo", "bar"}
SymbolNames == {"baz"}
EventNames == StringNames \cup SymbolNames

\* The Events interfaces tried: one with a single event name, for which
\* emits nested up to MaxDepth are explored, and two with a second name, a
\* string or a symbol, for which emits nested up to MaxWideDepth are.
Interfaces == {{"foo"}, {"foo", "bar"}, {"foo", "baz"}}

IsSymbol(eventName) == eventName \in SymbolNames

\* The order in which the keys of an object literal were written.
KeyOrders == {<<"foo">>, <<"foo", "bar">>, <<"baz", "foo">>}

\* User handler functions.  The caller has two and passes them in turn, so
\* that the third subscription asked for is given the function of the first:
\* a function may be subscribed again, also while it is running.
HandlerNames == <<"h1", "h2">>

\* Argument lists passed to an emit method: the caller's code passes one
\* list, a handler that emits while it runs passes the other.
ArgLists == {<<1, 2>>, <<2, 1>>}
ArgListsAt(depth) == IF depth = 0 THEN {<<1, 2>>} ELSE {<<2, 1>>}

\* The functions that onceAsPromise() subscribes: the p-th one resolves the
\* p-th promise returned.
ResolverNames == <<"resolve1", "resolve2">>

VARIABLES
    names,                     \* the event names of the Events interface
    handlers,                  \* EventEmitter.handlers
    nextSubscriptionIdNumber,  \* EventEmitter.nextSubscriptionIdNumber
    stack,                     \* the emit calls in progress, innermost last
    cancellers,                \* the cancel functions returned so far
    promises,                  \* the promises returned by onceAsPromise
    subs,                      \* history: the subscriptions asked for
    direct,                    \* history: a member of the emitter itself was called
    lastOp,                    \* history: the last step repeated a cancel call, or
                               \* handed back a value other than undefined
    thrown,                    \* history: the subscriptions whose handlers the
                               \* exception of the last step has left, innermost first
    abandoned,                 \* history: the keys that the innermost loop ended by
                               \* the exception of the last step had left to visit
    emitters,                  \* two EventEmitter objects: handlers, counter and the
                               \* target of the emit proxy of each
    handed,                    \* the cancel functions that the two objects returned
    held,                      \* the emit methods that callers have obtained
    made,                      \* history: the subscriptions asked of the two objects
    delivered                  \* history: the last call of an emit method held

vars == <<names, handlers, nextSubscriptionIdNumber, stack, cancellers,
          promises, subs, direct, lastOp, thrown, abandoned,
          emitters, handed, held, made, delivered>>

\* The state of the one emitter whose emits are followed step by step.
emitterVars == <<handlers, nextSubscriptionIdNumber, stack, cancellers,
                 promises, subs, direct, lastOp, thrown, abandoned>>

\* The state of the two emitters whose emits are followed call by call.
instanceVars == <<emitters, handed, held, made, delivered>>

----------------------------------------------------------------------------
(***************************************************************************)
(* Helpers on sequences.                                                   *)
(***************************************************************************)
Range(s) == {s[i] : i \in 1..Len(s)}

RECURSIVE Concat(_)
Concat(ss) == IF ss = <<>> THEN <<>> ELSE Head(ss) \o Concat(Tail(ss))

----------------------------------------------------------------------------
(***************************************************************************)
(* EventEmitter.on, lines 536-551.                                         *)
(***************************************************************************)

\* Ids drawn from a pool of two numbers: the third id is the first again.
SubscriptionIdWrapped(n) == <<"subscription_", n % 2>>

\* `subscription_${n}`: the text "subscription_" followed by the number.
SubscriptionId(n) == <<"subscription_", n>>

\* The stored handler is the user's function, or the wrappedHandler that
\* once() builds around it, which closes over its own cancel function.
PlainFn(h) == [wrapped |-> FALSE, handler |-> h]

\* The ids stored for one event, in property (insertion) order.
Keys(eventHandlers) == [i \in 1..Len(eventHandlers) |-> eventHandlers[i].id]

HasKey(eventHandlers, id) == \E i \in 1..Len(eventHandlers) : eventHandlers[i].id = id

\* Mutant of SetProperty: the new property is put first, as with unshift.
SetPropertyFirst(eventHandlers, id, fn) ==
    <<[id |-> id, fn |-> fn]>> \o eventHandlers

\* eventHandlers[subscriptionId] = fn: a new property goes last, an existing
\* one keeps its place and takes the new value.
SetProperty(eventHandlers, id, fn) ==
    IF HasKey(eventHandlers, id)
    THEN [i \in 1..Len(eventHandlers) |->
            IF eventHandlers[i].id = id THEN [id |-> id, fn |-> fn]
            ELSE eventHandlers[i]]
    ELSE Append(eventHandlers, [id |-> id, fn |-> fn])

\* Mutant of EventHandlersOf: one object for all events, as if this.handlers
\* were not keyed by event name.
EventHandlersFlat(H, eventName) ==
    LET IsKey(e) == e \in DOMAIN H
        es == SelectSeq(<<"foo", "bar", "baz">>, IsKey)
    IN  Concat([i \in 1..Len(es) |-> H[es[i]]])

\* The value of this.handlers[eventName], or the empty object on() creates.
EventHandlersOf(H, eventName) ==
    IF eventName \in DOMAIN H THEN H[eventName] ELSE <<>>

\* on(eventName, fn) started with storage H and counter n.  The cancel
\* function it returns is cancel.bind(this, subscriptionId).
on(H, n, eventName, fn) ==
    LET subscriptionId == SubscriptionId(n)
        eventHandlers == SetProperty(EventHandlersOf(H, eventName), subscriptionId, fn)
    IN  [handlers |-> [e \in DOMAIN H \cup {eventName} |->
                          IF e = eventName THEN eventHandlers ELSE H[e]],
         next |-> n + 1,
         id |-> subscriptionId]

(***************************************************************************)
(* EventEmitter.cancel, lines 561-573.  for-in visits the string keys of   *)
(* this.handlers only: a property keyed by a symbol is never enumerated.   *)
(***************************************************************************)
ForInKeys(H) == {e \in DOMAIN H : ~IsSymbol(e)}

\* Mutant of DeleteProperty: nothing is deleted.
DeletePropertyNone(eventHandlers, id) == eventHandlers

\* Mutant of DeleteProperty: splice(indexOf(id), 1) on a list, which removes
\* the last element when the id is not found.
DeletePropertySplice(eventHandlers, id) ==
    IF HasKey(eventHandlers, id)
    THEN LET Keep(entry) == entry.id # id IN SelectSeq(eventHandlers, Keep)
    ELSE SubSeq(eventHandlers, 1, Len(eventHandlers) - 1)

\* Removal that cuts the list at the property: the properties stored after
\* it go with it.
DeletePropertyTruncate(eventHandlers, id) ==
    IF HasKey(eventHandlers, id)
    THEN SubSeq(eventHandlers, 1,
                (CHOOSE k \in 1..Len(eventHandlers) : eventHandlers[k].id = id) - 1)
    ELSE eventHandlers

\* delete eventHandlers[subscriptionId]: no effect when there is no such
\* property.
DeleteProperty(eventHandlers, id) ==
    LET Keep(entry) == entry.id # id IN SelectSeq(eventHandlers, Keep)

\* Mutant of cancel: a wrappedHandler is left in place.
cancelPlainOnly(H, subscriptionId) ==
    [e \in DOMAIN H |->
        LET Keep(entry) == entry.id # subscriptionId \/ entry.fn.wrapped
        IN  IF e \in ForInKeys(H) THEN SelectSeq(H[e], Keep) ELSE H[e]]

\* Mutant of cancel: delete this.handlers[subscriptionId], which finds no
\* such property.
cancelWrongObject(H, subscriptionId) == H

cancel(H, subscriptionId) ==
    [e \in DOMAIN H |->
        IF e \in ForInKeys(H) THEN DeleteProperty(H[e], subscriptionId) ELSE H[e]]

\* Mutant of cancelAll: only the first of the cancelFunctions is called.
cancelFirstOnly(H, ids) ==
    IF ids = <<>> THEN H ELSE cancel(H, Head(ids))

\* Mutant of cancelAll: the loop over cancelFunctions stops at the first
\* subscription that is no longer stored.
RECURSIVE cancelUntilAbsent(_, _)
cancelUntilAbsent(H, ids) ==
    IF ids = <<>> THEN H
    ELSE IF \A e \in DOMAIN H : ~HasKey(H[e], Head(ids)) THEN H
    ELSE cancelUntilAbsent(cancel(H, Head(ids)), Tail(ids))

\* A cancel function is the list of subscription ids it was bound to; the
\* one subscribe() returns calls its cancelFunctions in order.
RECURSIVE cancelAll(_, _)
cancelAll(H, ids) ==
    IF ids = <<>> THEN H ELSE cancelAll(cancel(H, Head(ids)), Tail(ids))

(***************************************************************************)
(* AbstractEventSource.once, lines 125-142.                                *)
(***************************************************************************)
\* The closure variable `cancel` of a wrappedHandler before it is assigned.
Unbound == <<"unbound">>

\* wrappedHandler, closed over the user's handler and over `cancel`.
WrappedFn(h, cancelFn) == [wrapped |-> TRUE, handler |-> h, cancel |-> cancelFn]

\* The wrappedHandler is given a cancel function for the id of the
\* subscription made before its own.
BindCancelPrevious(eventHandlers, cancelFn) ==
    [i \in 1..Len(eventHandlers) |->
        IF eventHandlers[i].fn.wrapped /\ eventHandlers[i].fn.cancel = Unbound
        THEN [eventHandlers[i] EXCEPT
                 !.fn.cancel = <<<<cancelFn[1][1], cancelFn[1][2] - 1>>>>]
        ELSE eventHandlers[i]]

\* const cancel = this.on(...): the closure of the wrappedHandler just stored
\* now sees the cancel function that on() returned.
BindCancel(eventHandlers, cancelFn) ==
    [i \in 1..Len(eventHandlers) |->
        IF eventHandlers[i].fn.wrapped /\ eventHandlers[i].fn.cancel = Unbound
        THEN [eventHandlers[i] EXCEPT !.fn.cancel = cancelFn]
        ELSE eventHandlers[i]]

\* Mutant of once: the handler is subscribed without the wrapper.
onceUnwrapped(H, n, eventName, h) == on(H, n, eventName, PlainFn(h))

once(H, n, eventName, h) ==
    LET r == on(H, n, eventName, WrappedFn(h, Unbound))
    IN  [r EXCEPT !.handlers[eventName] = BindCancel(@, <<r.id>>)]

(***************************************************************************)
(* AbstractEventSource.onceAsPromise, lines 147-162.  A promise is pending *)
(* or resolved with a value; nothing in the executor can throw, and        *)
(* nothing holds its reject function.                                      *)
(***************************************************************************)
PendingPromise == [state |-> "pending", value |-> <<>>]

\* Mutant of ResolveCall: resolve.apply(undefined, arguments), which passes
\* on the first argument only.
ResolveApply(promise, args) ==
    IF promise.state = "pending"
    THEN [state |-> "resolved", value |-> SubSeq(args, 1, 1)]
    ELSE promise

\* resolve.call(undefined, arguments): the promise is resolved with the
\* argument list; resolving a promise that is already resolved does nothing.
ResolveCall(promise, args) ==
    IF promise.state = "pending"
    THEN [state |-> "resolved", value |-> args]
    ELSE promise

\* Mutant of onceAsPromise: the executor resolves the promise at once.
onceAsPromiseResolved(H, n, eventName, p) ==
    LET r == once(H, n, eventName, ResolverNames[p])
    IN  [handlers |-> r.handlers, next |-> r.next, id |-> r.id,
         promise |-> ResolveCall(PendingPromise, <<>>)]

\* The executor subscribes, with once, the function that resolves the p-th
\* promise; the cancel function that once returns is dropped.
onceAsPromise(H, n, eventName, p) ==
    LET r == once(H, n, eventName, ResolverNames[p])
    IN  [handlers |-> r.handlers, next |-> r.next, id |-> r.id,
         promise |-> PendingPromise]

(***************************************************************************)
(* EventEmitter.toEventSource, lines 524-531, and the public members of    *)
(* EventEmitter.  The model has one emitter and the view it returns; an    *)
(* object is given as the function from the names of its members to the    *)
(* object that each method runs on (its `this`).                           *)
(***************************************************************************)
EmitterMembers ==
    [m \in {"emit", "toEventSource", "on", "once", "onceAsPromise", "subscribe"} |->
        "emitter"]

\* Mutant of toEventSource: return this, typecast to an EventSource.
toEventSourceCast == EmitterMembers

\* Mutant of toEventSource: the methods are not bound to the emitter and
\* run on the object they are called on.
toEventSourceUnbound ==
    [m \in {"on", "once", "onceAsPromise", "subscribe"} |-> "source"]

\* The object literal returned: four methods, each one bound to this.
toEventSource ==
    [m \in {"on", "once", "onceAsPromise", "subscribe"} |-> "emitter"]

Objects == {"emitter", "source"}

MembersOf(obj) == IF obj = "emitter" THEN EmitterMembers ELSE toEventSource

\* obj[method] can be called.
HasMember(obj, method) == method \in DOMAIN MembersOf(obj)

\* The outcome for the emitter of calling obj[method], where result is the
\* outcome of the method run on the emitter, whose storage and counter
\* were H and n: a method that runs on another object leaves them alone.
CallOn(obj, method, H, n, result) ==
    IF MembersOf(obj)[method] = "emitter"
    THEN result
    ELSE [result EXCEPT !.handlers = H, !.next = n]

(***************************************************************************)
(* once() and isOnceEventHandler(), src/src/once.ts.                       *)
(***************************************************************************)
\* Values a handler map can hold for an event name.
FunctionValue(h) == [typeof |-> "function", fn |-> h]
Undefined == [typeof |-> "undefined"]
Null == [typeof |-> "object", null |-> TRUE]
onceMarker(h) == [typeof |-> "object", type |-> "once", handler |-> h]

\* A function object that carries own properties type and handler, as a
\* caller may give to any function.
TaggedFunction(h, g) ==
    [typeof |-> "function", fn |-> h, type |-> "once", handler |-> g]

\* A test of the tag alone, without the test of typeof.
isOnceEventHandlerByTag(value) ==
    IF "type" \in DOMAIN value THEN value.type = "once" ELSE FALSE

\* typeof value === "object" && value.type && value.type === "once"
isOnceEventHandler(value) == value.typeof = "object" /\ value.type = "once"

\* !handler
IsFalsy(value) == value \in {Undefined, Null}

(***************************************************************************)
(* AbstractEventSource.subscribe, lines 167-217.  A handler map is the     *)
(* sequence of its own properties in the order they were written.          *)
(***************************************************************************)
\* Object.getOwnPropertyNames(handlers).concat(Object.getOwnPropertySymbols(handlers))
OwnPropertyNames(map) == LET IsStr(p) == ~IsSymbol(p.eventName) IN SelectSeq(map, IsStr)
OwnPropertySymbols(map) == LET IsSym(p) == IsSymbol(p.eventName) IN SelectSeq(map, IsSym)
eventNamesOf(map) == OwnPropertyNames(map) \o OwnPropertySymbols(map)

\* Mutant of subscribeLoop: the loop without the test of !handler, which
\* subscribes whatever value the entry holds.
RECURSIVE subscribeLoopNoSkip(_, _, _, _)
subscribeLoopNoSkip(H, n, props, cancelFunctions) ==
    IF props = <<>>
    THEN [handlers |-> H, next |-> n, cancelFunctions |-> cancelFunctions]
    ELSE LET handler == Head(props).value
             eventName == Head(props).eventName
             r == IF IsFalsy(handler)
                  THEN on(H, n, eventName, PlainFn("none"))
                  ELSE IF isOnceEventHandler(handler)
                       THEN once(H, n, eventName, handler.handler)
                       ELSE on(H, n, eventName, PlainFn(handler.fn))
         IN  subscribeLoopNoSkip(r.handlers, r.next, Tail(props),
                                 Append(cancelFunctions, <<r.id>>))

\* The loop over eventNames; cancelFunctions collects what on/once return.
RECURSIVE subscribeLoop(_, _, _, _)
subscribeLoop(H, n, props, cancelFunctions) ==
    IF props = <<>>
    THEN [handlers |-> H, next |-> n, cancelFunctions |-> cancelFunctions]
    ELSE LET handler == Head(props).value
             eventName == Head(props).eventName
         IN  IF IsFalsy(handler)
             THEN subscribeLoop(H, n, Tail(props), cancelFunctions)
             ELSE LET r == IF isOnceEventHandler(handler)
                           THEN once(H, n, eventName, handler.handler)
                           ELSE on(H, n, eventName, PlainFn(handler.fn))
                  IN  subscribeLoop(r.handlers, r.next, Tail(props),
                                    Append(cancelFunctions, <<r.id>>))

subscribe(H, n, map) == subscribeLoop(H, n, eventNamesOf(map), <<>>)

(***************************************************************************)
(* EventEmitter.createEventHandlerCaller, lines 426-458.                   *)
(***************************************************************************)
\* Mutant of ApplyArguments: the first argument is dropped.
ApplyArgumentsShifted(args) == IF args = <<>> THEN <<>> ELSE Tail(args)

\* handler.apply(undefined, arguments): the argument list is passed through.
ApplyArguments(args) == [i \in 1..Len(args) |-> args[i]]

\* for (const subscriptionId in eventSubscriptions): the keys are listed once,
\* when the loop starts.
ForInSnapshot(eventSubscriptions) == Keys(eventSubscriptions)

\* Mutant of ForInPending: the iteration of a Map, which also visits the
\* entries added while it runs.
MapIterationPending(keys, visited, eventSubscriptions) ==
    LET IsNew(id) == id \notin Range(keys) /\ id \notin Range(visited)
    IN  keys \o SelectSeq(Keys(eventSubscriptions), IsNew)

\* The keys the loop has still to visit: those of the list made when it
\* started that it has not reached, whatever was added since.
\* Storage in an array visited by index: the next key is the one at the
\* position after the number of keys visited, in the array as it is now.
ArrayIndexPending(keys, visited, eventSubscriptions) ==
    SubSeq(Keys(eventSubscriptions), Len(visited) + 1, Len(eventSubscriptions))

ForInPending(keys, visited, eventSubscriptions) == keys

\* A key deleted before the loop reaches it is not visited.
ForInVisits(eventSubscriptions, id) == HasKey(eventSubscriptions, id)

GetProperty(eventHandlers, id) ==
    (CHOOSE entry \in Range(eventHandlers) : entry.id = id).fn

\* A wrappedHandler that calls the handler first and its cancel function
\* afterwards: the registry is untouched when the handler begins.
wrappedHandlerCancelLast(H, fn) == H

\* this.handlers when the wrappedHandler fn that once stored begins the call
\* of the user's handler: its first statement is cancel().
wrappedHandler(H, fn) == cancelAll(H, fn.cancel)

\* A dispatcher that takes the subscriptions of the event out of the
\* registry for the time of the pass and puts them back at its end: a pass
\* that an exception ends leaves the event without them.
LoopAbandonedDetached(H, eventName) ==
    [e \in DOMAIN H \ {eventName} |-> H[e]]

\* this.handlers after an exception has left the loop of an emit of
\* eventName: the loop reads the registry in place, keeps nothing of it
\* aside and has no catch or finally clause.
LoopAbandoned(H, eventName) == H

\* What a handler hands back to the apply call of the loop: nothing, false,
\* or, when the handler is async, a promise that is pending or rejected.
ReturnValues == {"undefined", "false", "pending", "rejected"}

\* A rule under which a handler that returns false ends the pass.
StopOnFalse(value, keys) == IF value = "false" THEN <<>> ELSE keys

\* The keys the loop has left after a handler returned value: the result of
\* apply is an expression statement, nothing reads it.
ContinueAfter(value, keys) == keys

\* The result of the emit method, whose body has no return statement.
EmitResult(frame) == "undefined"

\* What the history keeps of a value handed back: whether it was undefined.
Noted(value) == IF value = "undefined" THEN "other" ELSE "value"

\* Every call in progress returns at once.
PopAllFrames(callStack) == <<>>

\* The call stack after the innermost emit has returned to its caller.
PopFrame(callStack) == SubSeq(callStack, 1, Len(callStack) - 1)

----------------------------------------------------------------------------
(***************************************************************************)
(* The state of the run.                                                   *)
(*                                                                         *)
(* stack: one frame per emit in progress.  keys are the ids its for-in     *)
(* loop has still to visit, cur is the id whose handler is running (NoCur  *)
(* between two handlers), args is the arguments object.  The other fields  *)
(* of a frame are history: emitArgs is what the caller passed, live0 the   *)
(* subscriptions that were live for the event when the call was made,      *)
(* subs0 how many subscriptions had been asked for by then, visited what   *)
(* the loop did                                                            *)
(* with each key so far: the subscription the key belongs to, whether a    *)
(* cancel function governing it had been called and whether its once       *)
(* wrapper had run when its turn came, whether the handler was invoked,    *)
(* and the handler and arguments of the invocation.                        *)
(*                                                                         *)
(* The history records what the callers asked for, not what the registry   *)
(* did: cancellers[c].calls says whether cancel function c has been        *)
(* called, subs[i].fired that the once wrapper of subscription i           *)
(* has run.  lastOp is "again" when the last step called a cancel function *)
(* that had been called before, and "value" when in the last step a        *)
(* handler returned something other than undefined.  thrown lists the      *)
(* subscriptions whose handlers the exception of the last step has left,   *)
(* and is empty after any other step; abandoned lists the keys that the    *)
(* innermost of the loops it ended had left to visit.                      *)
(* direct is FALSE as long as every call was                               *)
(* made on the view returned by toEventSource or on a cancel function, and *)
(* none on a member of the emitter itself.                                 *)
(***************************************************************************)
NoCur == <<>>
NoId == <<>>

\* A loop that wraps each call of a handler in try and catch: the exception
\* stops at the innermost emit, whose loop goes on with its next key.
UnwindCaught(callStack, depth) ==
    [callStack EXCEPT ![Len(callStack)].cur = NoCur]

\* The call stack after an exception has left its depth innermost emits.
Unwind(callStack, depth) == SubSeq(callStack, 1, Len(callStack) - depth)

Top == stack[Len(stack)]

\* Control is in the code that owns the emitter: at top level, or inside the
\* handler that the innermost emit is running.
InCaller == IF stack = <<>> THEN TRUE ELSE Top.cur # NoCur

\* A cancel function governing the subscription has been called.  The
\* subscription of onceAsPromise has none: its canceller is 0.
Cancelled(sub) ==
    IF sub.canceller = 0 THEN FALSE ELSE cancellers[sub.canceller].calls > 0

IsResolver(h) == h \in Range(ResolverNames)

\* The promise that the function h resolves.
PromiseOf(h) == CHOOSE p \in 1..Len(ResolverNames) : ResolverNames[p] = h

Live(sub) == ~Cancelled(sub) /\ ~sub.fired

\* The calls of on, once, onceAsPromise and subscribe made so far.
Calls == Len(cancellers) + Len(promises)

\* Calls of on, once, onceAsPromise and subscribe: up to MaxCalls with a
\* single event name, up to MaxWideCalls with two.
CallsLimit == IF Cardinality(names) = 1 THEN MaxCalls ELSE MaxWideCalls

DepthLimit == IF Cardinality(names) = 1 THEN MaxDepth ELSE MaxWideDepth

LiveSubs(eventName) ==
    {i \in 1..Len(subs) : subs[i].eventName = eventName /\ Live(subs[i])}

SubsOfId(id) == {i \in 1..Len(subs) : subs[i].id = id}

SubOfId(id) == IF SubsOfId(id) = {} THEN 0 ELSE CHOOSE i \in SubsOfId(id) : TRUE

\* The keys the loop of frame f has still to visit.
Pending(f) ==
    ForInPending(f.keys, [k \in 1..Len(f.visited) |-> f.visited[k].id],
                 EventHandlersOf(handlers, f.eventName))

\* What the entries of a handler map hold, in the order of its keys: plain
\* functions, once() markers, undefined and null, in the mixes the tests use.
MapKinds == {<<"undefined">>, <<"function", "function">>, <<"once", "once">>,
             <<"undefined", "function">>, <<"function", "once">>,
             <<"null">>, <<"null", "function">>}

\* The handler the caller passes for the j-th subscription asked for.
FreshHandler(j) == HandlerNames[((j - 1) % Len(HandlerNames)) + 1]

MapValue(kind, h) ==
    CASE kind = "function" -> FunctionValue(h)
      [] kind = "once" -> onceMarker(h)
      [] kind = "null" -> Null
      [] OTHER -> Undefined

\* The handler maps tried: the key orders of KeyOrders that fit the
\* interface, with the values of MapKinds.
HandlerMaps ==
    UNION {{[i \in 1..Len(ks) |->
                [eventName |-> ks[i],
                 value |-> MapValue(vs[i], FreshHandler(Len(subs) + i))]] :
                vs \in {k \in MapKinds : Len(k) = Len(ks)}} :
           ks \in {o \in KeyOrders : Range(o) \subseteq names}}

\* What a handler map asks for: one subscription for each entry that holds
\* a handler, fire-once when the entry was made with once().
Requested(map) ==
    LET Present(p) == p.value \notin {Undefined, Null}
        ps == SelectSeq(eventNamesOf(map), Present)
    IN  [i \in 1..Len(ps) |->
            [eventName |-> ps[i].eventName,
             h |-> IF ps[i].value.typeof = "object" THEN ps[i].value.handler
                   ELSE ps[i].value.fn,
             once |-> ps[i].value.typeof = "object"]]

NewSub(id, eventName, h, isOnce) ==
    [id |-> id, eventName |-> eventName, h |-> h, once |-> isOnce,
     canceller |-> Len(cancellers) + 1,
     fired |-> FALSE]

\* The EventEmitter objects of the second specification, and how many
\* subscriptions and subscribe calls they get between them.
Instances == {1, 2}
MaxMade == 2
MaxHanded == 2

\* new EventEmitter(): handlers = {}, nextSubscriptionIdNumber = 0, and an
\* emit proxy whose target {} has no method yet.
NewEventEmitter ==
    [handlers |-> [e \in {} |-> <<>>],
     nextSubscriptionIdNumber |-> 0,
     target |-> [e \in {} |-> <<>>]]

\* The last step called no emit method.
NoDelivery == <<>>

TypeOK ==
    /\ nextSubscriptionIdNumber \in 0..MaxSubs
    /\ Len(promises) <= MaxPromises
    /\ \A p \in 1..Len(promises) :
          /\ promises[p].promise.state \in {"pending", "resolved"}
          /\ promises[p].eventName \in names
    /\ names \in Interfaces
    /\ DOMAIN handlers \subseteq names
    /\ Len(stack) <= MaxDepth
    /\ Len(subs) <= MaxSubs
    /\ direct \in BOOLEAN
    /\ lastOp \in {"other", "again", "value"}
    /\ Len(thrown) <= MaxDepth
    /\ Len(abandoned) <= MaxSubs

Init ==
    /\ names \in Interfaces
    /\ handlers = [e \in {} |-> <<>>]
    /\ nextSubscriptionIdNumber = 0
    /\ stack = <<>>
    /\ cancellers = <<>>
    /\ promises = <<>>
    /\ subs = <<>>
    /\ direct = FALSE
    /\ lastOp = "other"
    /\ thrown = <<>>
    /\ abandoned = <<>>
    /\ emitters = [k \in Instances |-> NewEventEmitter]
    /\ handed = <<>>
    /\ held = {}
    /\ made = <<>>
    /\ delivered = NoDelivery

----------------------------------------------------------------------------
\* obj.on(eventName, h), for obj the emitter or the view
On(obj, eventName, h) ==
    /\ InCaller
    /\ HasMember(obj, "on")
    /\ Calls < CallsLimit
    /\ Len(subs) < MaxSubs
    /\ LET r == CallOn(obj, "on", handlers, nextSubscriptionIdNumber,
                       on(handlers, nextSubscriptionIdNumber, eventName, PlainFn(h)))
       IN  /\ handlers' = r.handlers
           /\ nextSubscriptionIdNumber' = r.next
           /\ cancellers' = Append(cancellers, [ids |-> <<r.id>>, calls |-> 0])
           /\ subs' = Append(subs, NewSub(r.id, eventName, h, FALSE))
    /\ direct' = (direct \/ obj = "emitter")
    /\ thrown' = <<>>
    /\ abandoned' = <<>>
    /\ UNCHANGED instanceVars
    /\ lastOp' = "other"
    /\ UNCHANGED <<names, stack, promises>>

\* obj.once(eventName, h)
Once(obj, eventName, h) ==
    /\ InCaller
    /\ HasMember(obj, "once")
    /\ Calls < CallsLimit
    /\ Len(subs) < MaxSubs
    /\ LET r == CallOn(obj, "once", handlers, nextSubscriptionIdNumber,
                       once(handlers, nextSubscriptionIdNumber, eventName, h))
       IN  /\ handlers' = r.handlers
           /\ nextSubscriptionIdNumber' = r.next
           /\ cancellers' = Append(cancellers, [ids |-> <<r.id>>, calls |-> 0])
           /\ subs' = Append(subs, NewSub(r.id, eventName, h, TRUE))
    /\ direct' = (direct \/ obj = "emitter")
    /\ thrown' = <<>>
    /\ abandoned' = <<>>
    /\ UNCHANGED instanceVars
    /\ lastOp' = "other"
    /\ UNCHANGED <<names, stack, promises>>

\* obj.onceAsPromise(eventName): the promise returned is the next one.
\* first is history: the arguments of the first emit of the event called
\* after this call, in a list that is empty until there is one.
OnceAsPromise(obj, eventName) ==
    /\ InCaller
    /\ HasMember(obj, "onceAsPromise")
    /\ Calls < CallsLimit
    /\ Len(promises) < MaxPromises
    /\ Len(subs) < MaxSubs
    /\ LET p == Len(promises) + 1
           r == CallOn(obj, "onceAsPromise", handlers, nextSubscriptionIdNumber,
                       onceAsPromise(handlers, nextSubscriptionIdNumber, eventName, p))
       IN  /\ handlers' = r.handlers
           /\ nextSubscriptionIdNumber' = r.next
           /\ promises' = Append(promises, [promise |-> r.promise,
                                            eventName |-> eventName,
                                            first |-> <<>>])
           /\ subs' = Append(subs, [NewSub(r.id, eventName, ResolverNames[p], TRUE)
                                      EXCEPT !.canceller = 0])
    /\ direct' = (direct \/ obj = "emitter")
    /\ thrown' = <<>>
    /\ abandoned' = <<>>
    /\ UNCHANGED instanceVars
    /\ lastOp' = "other"
    /\ UNCHANGED <<names, stack, cancellers>>

\* obj.subscribe(map)
Subscribe(obj, map) ==
    /\ InCaller
    /\ HasMember(obj, "subscribe")
    /\ Calls < CallsLimit
    /\ Len(subs) + Len(Requested(map)) <= MaxSubs
    /\ LET r == CallOn(obj, "subscribe", handlers, nextSubscriptionIdNumber,
                       subscribe(handlers, nextSubscriptionIdNumber, map))
           ids == Concat(r.cancelFunctions)
           req == Requested(map)
       IN  /\ handlers' = r.handlers
           /\ nextSubscriptionIdNumber' = r.next
           /\ cancellers' = Append(cancellers, [ids |-> ids, calls |-> 0])
           /\ subs' = subs \o
                  [i \in 1..Len(req) |->
                      NewSub(IF i <= Len(ids) THEN ids[i] ELSE NoId,
                             req[i].eventName, req[i].h, req[i].once)]
    /\ direct' = (direct \/ obj = "emitter")
    /\ thrown' = <<>>
    /\ abandoned' = <<>>
    /\ UNCHANGED instanceVars
    /\ lastOp' = "other"
    /\ UNCHANGED <<names, stack, promises>>

\* Calling the c-th cancel function handed out.
Cancel(c) ==
    /\ InCaller
    /\ c \in 1..Len(cancellers)
    /\ handlers' = cancelAll(handlers, cancellers[c].ids)
    /\ cancellers' = [cancellers EXCEPT ![c].calls = 1]
    /\ thrown' = <<>>
    /\ abandoned' = <<>>
    /\ UNCHANGED instanceVars
    /\ lastOp' = IF cancellers[c].calls > 0 THEN "again" ELSE "other"
    /\ UNCHANGED <<names, nextSubscriptionIdNumber, stack, promises, subs, direct>>

\* obj.emit[eventName](...args): the call, up to the start of the loop.
\* When the event has no entry in this.handlers there are no keys to visit
\* and the next step is the return.
Emit(obj, eventName, args) ==
    /\ InCaller
    /\ HasMember(obj, "emit")
    /\ Len(stack) < DepthLimit
    /\ LET frame == [eventName |-> eventName,
                     args |-> args, emitArgs |-> args,
                     keys |-> ForInSnapshot(EventHandlersOf(handlers, eventName)),
                     cur |-> NoCur, live0 |-> LiveSubs(eventName),
                     subs0 |-> Len(subs), visited |-> <<>>]
       IN  stack' = Append(stack, frame)
    /\ promises' = [p \in 1..Len(promises) |->
                       IF promises[p].eventName = eventName /\ promises[p].first = <<>>
                       THEN [promises[p] EXCEPT !.first = <<args>>]
                       ELSE promises[p]]
    /\ direct' = (direct \/ obj = "emitter")
    /\ thrown' = <<>>
    /\ abandoned' = <<>>
    /\ UNCHANGED instanceVars
    /\ lastOp' = "other"
    /\ UNCHANGED <<names, handlers, nextSubscriptionIdNumber, cancellers, subs>>

\* One iteration of the loop of the innermost emit: the next key is skipped
\* when it is no longer a property, else its handler is called.  A
\* wrappedHandler first calls its cancel function, then the user's handler.
\* The function that onceAsPromise subscribed resolves its promise and
\* returns, without running any code of the caller.
Dispatch ==
    /\ stack # <<>>
    /\ Top.cur = NoCur
    /\ Pending(Top) # <<>>
    /\ LET f == Top
           subscriptionId == Head(Pending(f))
           eventSubscriptions == EventHandlersOf(handlers, f.eventName)
           present == ForInVisits(eventSubscriptions, subscriptionId)
           fn == GetProperty(eventSubscriptions, subscriptionId)
           s == SubOfId(subscriptionId)
           resolves == IF present THEN IsResolver(fn.handler) ELSE FALSE
           turn == [id |-> subscriptionId, sub |-> s,
                    wasCancelled |-> IF s = 0 THEN FALSE ELSE Cancelled(subs[s]),
                    wasFired |-> IF s = 0 THEN FALSE ELSE subs[s].fired,
                    invoked |-> present,
                    h |-> IF present THEN fn.handler ELSE "none",
                    args |-> IF present THEN ApplyArguments(f.args) ELSE <<>>]
       IN  /\ stack' = [stack EXCEPT ![Len(stack)] =
                           [f EXCEPT !.keys = Tail(Pending(f)),
                                     !.cur = IF present /\ ~resolves
                                             THEN subscriptionId ELSE NoCur,
                                     !.visited = Append(f.visited, turn)]]
           /\ handlers' = IF present /\ fn.wrapped
                          THEN wrappedHandler(handlers, fn) ELSE handlers
           /\ subs' = [i \in 1..Len(subs) |->
                          IF present /\ i = s
                          THEN [subs[i] EXCEPT !.fired = subs[i].once]
                          ELSE subs[i]]
           /\ promises' = IF resolves
                          THEN [promises EXCEPT ![PromiseOf(fn.handler)].promise =
                                   ResolveCall(@, ApplyArguments(f.args))]
                          ELSE promises
           /\ thrown' = <<>>
           /\ abandoned' = <<>>
           /\ UNCHANGED instanceVars
           /\ lastOp' = "other"
    /\ UNCHANGED <<names, nextSubscriptionIdNumber, cancellers, direct>>

\* The running handler returns value to the apply call of the loop, which
\* does nothing with it: the loop goes on with the keys it had.
HandlerReturn(value) ==
    /\ stack # <<>>
    /\ Top.cur # NoCur
    /\ stack' = [stack EXCEPT ![Len(stack)] =
                    [Top EXCEPT !.cur = NoCur,
                                !.keys = ContinueAfter(value, Top.keys)]]
    /\ thrown' = <<>>
    /\ abandoned' = <<>>
    /\ UNCHANGED instanceVars
    /\ lastOp' = Noted(value)
    /\ UNCHANGED <<names, handlers, nextSubscriptionIdNumber, cancellers,
                   promises, subs, direct>>

\* The running handler throws.  Neither the wrappedHandler of once, nor the
\* loop, nor the emit method has a try statement, so the exception leaves
\* the emit calls in progress one after the other, each without visiting
\* the keys it had left, until a handler that called one of them catches
\* it (depth < Len(stack)) or it reaches the caller of the outermost emit.
HandlerThrow(depth) ==
    /\ stack # <<>>
    /\ Top.cur # NoCur
    /\ depth \in 1..Len(stack)
    /\ thrown' = [j \in 1..depth |-> SubOfId(stack[Len(stack) + 1 - j].cur)]
    /\ abandoned' = Pending(Top)
    /\ stack' = Unwind(stack, depth)
    /\ handlers' = LoopAbandoned(handlers, Top.eventName)
    /\ UNCHANGED instanceVars
    /\ lastOp' = "other"
    /\ UNCHANGED <<names, nextSubscriptionIdNumber, cancellers,
                   promises, subs, direct>>

\* The loop has visited every key: the emit method returns.
EmitReturn ==
    /\ stack # <<>>
    /\ Top.cur = NoCur
    /\ Pending(Top) = <<>>
    /\ stack' = PopFrame(stack)
    /\ thrown' = <<>>
    /\ abandoned' = <<>>
    /\ UNCHANGED instanceVars
    /\ lastOp' = Noted(EmitResult(Top))
    /\ UNCHANGED <<names, handlers, nextSubscriptionIdNumber, cancellers,
                   promises, subs, direct>>

Next ==
    \/ \E obj \in Objects, e \in names : On(obj, e, FreshHandler(Len(subs) + 1))
    \/ \E obj \in Objects, e \in names : Once(obj, e, FreshHandler(Len(subs) + 1))
    \/ \E obj \in Objects, e \in names : OnceAsPromise(obj, e)
    \/ \E obj \in Objects, map \in HandlerMaps : Subscribe(obj, map)
    \/ \E c \in 1..Len(cancellers) : Cancel(c)
    \/ \E obj \in Objects, e \in names, args \in ArgListsAt(Len(stack)) : Emit(obj, e, args)
    \/ Dispatch
    \/ \E value \in ReturnValues : HandlerReturn(value)
    \/ \E depth \in 1..MaxDepth : HandlerThrow(depth)
    \/ EmitReturn

Spec == Init /\ [][Next]_vars

----------------------------------------------------------------------------
(***************************************************************************)
(* A second specification: two EventEmitter objects side by side, the      *)
(* emit proxy of each with the methods it has cached, and handler maps     *)
(* that hold functions carrying properties of their own.  The handlers are *)
(* passive here: they call nothing of the emitters, so a call of an emit   *)
(* method is one step, the whole pass of its loop.  The operators are      *)
(* those of the first specification.                                       *)
(*                                                                         *)
(* emitters[k] is the k-th object.  A cancel function handed out is        *)
(* cancel.bind(this, id): it belongs to the object that made it.  An emit  *)
(* method is the function that createEventHandlerCaller returned; the      *)
(* history field createdWith is what this.handlers[eventName] was when it  *)
(* was created.  made[i].value is the value the map held for subscription  *)
(* i, delivered the handlers that the last call of an emit method invoked  *)
(* and the subscriptions that were live when the call was made.            *)
(***************************************************************************)
\* What the entries of a handler map hold: plain functions, once() wrappers,
\* undefined, and functions that carry a property type with value "once".
ValueKinds == {<<"function">>, <<"tagged">>, <<"once">>, <<"once", "tagged">>,
               <<"tagged", "function">>, <<"undefined", "tagged">>}

\* The property handler of a tagged function holds another function.
EntryValue(kind, h, g) ==
    IF kind = "tagged" THEN TaggedFunction(h, g) ELSE MapValue(kind, h)

ValueMaps ==
    UNION {{[i \in 1..Len(ks) |->
                [eventName |-> ks[i],
                 value |-> EntryValue(vs[i], FreshHandler(Len(made) + i),
                                      FreshHandler(Len(made) + i + 1))]] :
                vs \in {k \in ValueKinds : Len(k) = Len(ks)}} :
           ks \in {o \in KeyOrders : Range(o) \subseteq names}}

\* The entries of the map for which subscribe makes a subscription, in the
\* order in which it makes them.
PresentEntries(map) ==
    LET Present(p) == ~IsFalsy(p.value) IN SelectSeq(eventNamesOf(map), Present)

\* The function that createEventHandlerCaller(eventName) returns for the
\* k-th object: it closes over the object and the name, nothing else.
createEventHandlerCaller(k, eventName, eventSubscriptions) ==
    [emitter |-> k, eventName |-> eventName, createdWith |-> eventSubscriptions]

\* emitProxyGet(target, eventName) of the k-th object, whose storage for the
\* name is eventSubscriptions: the method is created when target has none.
emitProxyGet(target, k, eventName, eventSubscriptions) ==
    IF eventName \in DOMAIN target
    THEN [target |-> target, method |-> target[eventName]]
    ELSE LET caller == createEventHandlerCaller(k, eventName, eventSubscriptions)
         IN  [target |-> [e \in DOMAIN target \cup {eventName} |->
                             IF e = eventName THEN caller ELSE target[e]],
              method |-> caller]

\* this.emit of a WithEventEmitter built on the k-th object: the constructor
\* copies the reference to the proxy of its EventEmitter.
WithEventEmitterEmit(k) == k

\* A method that keeps the subscriptions it found when it was created.
LookupAtCreation(method, H) == method.createdWith

\* const eventSubscriptions = _this.handlers[eventName], run at each call.
LookupAtCall(method, H) == EventHandlersOf(H, method.eventName)

\* The loop of the emit method over keys when no handler touches the
\* emitter: the registry it leaves and the handlers it invoked, in order.
RECURSIVE PassLoop(_, _, _, _)
PassLoop(H, eventName, keys, invoked) ==
    IF keys = <<>>
    THEN [handlers |-> H, invoked |-> invoked]
    ELSE LET subscriptionId == Head(keys)
             eventSubscriptions == EventHandlersOf(H, eventName)
         IN  IF ~ForInVisits(eventSubscriptions, subscriptionId)
             THEN PassLoop(H, eventName, Tail(keys), invoked)
             ELSE LET fn == GetProperty(eventSubscriptions, subscriptionId)
                  IN  PassLoop(IF fn.wrapped THEN wrappedHandler(H, fn) ELSE H,
                               eventName, Tail(keys),
                               Append(invoked, [id |-> subscriptionId,
                                                h |-> fn.handler,
                                                wrapped |-> fn.wrapped]))

\* A call of the emit method on the registry H.
CallEmitMethod(method, H) ==
    PassLoop(H, method.eventName, ForInSnapshot(LookupAtCall(method, H)), <<>>)

\* One registry for all the objects: the id is deleted wherever it is found.
cancelEverywhere(E, k, ids) ==
    [j \in DOMAIN E |-> [E[j] EXCEPT !.handlers = cancelAll(@, ids)]]

\* A cancel function of the k-th object is cancel bound to that object: it
\* deletes from this.handlers of that object.
cancelOn(E, k, ids) == [E EXCEPT ![k].handlers = cancelAll(@, ids)]

\* The cancel function of subscription i of made has not been called and
\* its once wrapper has not run.
LiveMade(i) == handed[made[i].canceller].calls = 0 /\ ~made[i].fired

LiveMadeFor(k, eventName) ==
    {i \in 1..Len(made) :
        made[i].emitter = k /\ made[i].eventName = eventName /\ LiveMade(i)}

\* emitters[k].subscribe(map)
SubscribeAt(k, map) ==
    /\ Len(handed) < MaxHanded
    /\ Len(made) + Len(PresentEntries(map)) <= MaxMade
    /\ LET r == subscribe(emitters[k].handlers,
                          emitters[k].nextSubscriptionIdNumber, map)
           ids == Concat(r.cancelFunctions)
           entries == PresentEntries(map)
       IN  /\ emitters' = [emitters EXCEPT
                              ![k].handlers = r.handlers,
                              ![k].nextSubscriptionIdNumber = r.next]
           /\ handed' = Append(handed, [emitter |-> k, ids |-> ids, calls |-> 0])
           /\ made' = made \o
                  [i \in 1..Len(entries) |->
                      [emitter |-> k,
                       id |-> IF i <= Len(ids) THEN ids[i] ELSE NoId,
                       eventName |-> entries[i].eventName,
                       value |-> entries[i].value,
                       canceller |-> Len(handed) + 1,
                       fired |-> FALSE]]
    /\ delivered' = NoDelivery
    /\ UNCHANGED <<names, emitterVars, held>>

\* Calling the c-th cancel function handed out.
CancelAt(c) ==
    /\ c \in 1..Len(handed)
    /\ emitters' = cancelOn(emitters, handed[c].emitter, handed[c].ids)
    /\ handed' = [handed EXCEPT ![c].calls = 1]
    /\ delivered' = NoDelivery
    /\ UNCHANGED <<names, emitterVars, held, made>>

\* proxy[eventName], where proxy is the emit property of the k-th object or
\* the copy of it that a WithEventEmitter holds: the caller keeps the method.
Access(proxy, eventName) ==
    /\ LET k == proxy
           r == emitProxyGet(emitters[k].target, k, eventName,
                             EventHandlersOf(emitters[k].handlers, eventName))
       IN  /\ emitters' = [emitters EXCEPT ![k].target = r.target]
           /\ held' = held \cup {r.method}
    /\ delivered' = NoDelivery
    /\ UNCHANGED <<names, emitterVars, handed, made>>

\* A call of an emit method that a caller holds.
Call(method) ==
    /\ method \in held
    /\ LET k == method.emitter
           r == CallEmitMethod(method, emitters[k].handlers)
           ran == {r.invoked[n].id : n \in {m \in 1..Len(r.invoked) : r.invoked[m].wrapped}}
       IN  /\ emitters' = [emitters EXCEPT ![k].handlers = r.handlers]
           /\ made' = [i \in 1..Len(made) |->
                          IF made[i].emitter = k /\ made[i].id \in ran
                          THEN [made[i] EXCEPT !.fired = TRUE]
                          ELSE made[i]]
           /\ delivered' = [method |-> method,
                            live |-> LiveMadeFor(k, method.eventName),
                            invoked |-> r.invoked]
    /\ UNCHANGED <<names, emitterVars, handed, held>>

InstancesNext ==
    \/ \E k \in Instances, map \in ValueMaps : SubscribeAt(k, map)
    \/ \E c \in 1..Len(handed) : CancelAt(c)
    \/ \E k \in Instances, e \in names :
          Access(k, e) \/ Access(WithEventEmitterEmit(k), e)
    \/ \E method \in held : Call(method)

InstancesSpec == Init /\ [][InstancesNext]_vars

----------------------------------------------------------------------------
(***************************************************************************)
(* Properties.                                                             *)
(***************************************************************************)
Frames == Range(stack)

\* The loop of the frame has visited every key and the emit is about to return.
Finished(f) == f.cur = NoCur /\ Pending(f) = <<>>

Turns(f) == Range(f.visited)

\* The subscription was live when its turn came.
WasLive(t) == t.sub # 0 /\ ~t.wasCancelled /\ ~t.wasFired

Stored(i) ==
    /\ subs[i].eventName \in DOMAIN handlers
    /\ HasKey(handlers[subs[i].eventName], subs[i].id)

IsStringSub(i) == ~IsSymbol(subs[i].eventName)

\* C1: during an emit of E with arguments A, every subscription for E that
\* was live when the emit began gets its turn, no subscription gets two, and
\* one that is live when its turn comes has its own handler invoked with
\* exactly A.
C1_EmitInvokesEachLiveOnce ==
    \A f \in Frames :
        /\ \A i, j \in 1..Len(f.visited) :
              i # j => f.visited[i].id # f.visited[j].id
        /\ \A t \in Turns(f) :
              WasLive(t) =>
                  /\ t.invoked
                  /\ subs[t.sub].eventName = f.eventName
                  /\ t.h = subs[t.sub].h
                  /\ t.args = f.emitArgs
        /\ \A i \in f.live0 :
              \/ \E t \in Turns(f) : t.sub = i
              \/ ~Finished(f) /\ subs[i].id \in Range(f.keys)

\* An emit with two-element arguments has returned after invoking two
\* subscriptions that were live when it began.
C1_Witness ==
    \E f \in Frames :
        /\ Finished(f)
        /\ Cardinality(f.live0) >= 2
        /\ Len(f.emitArgs) = 2
        /\ \A i \in f.live0 : \E t \in Turns(f) : t.sub = i /\ t.invoked /\ WasLive(t)

\* C2: within one emit the handlers are invoked in the order in which their
\* subscriptions were registered, whether or not subscriptions between them
\* were cancelled.
C2_RegistrationOrder ==
    \A f \in Frames :
        \A i, j \in 1..Len(f.visited) :
            (i < j /\ f.visited[i].invoked /\ f.visited[j].invoked)
                => f.visited[i].sub < f.visited[j].sub

\* An emit has invoked the first and the third of three subscriptions to its
\* event and skipped the cancelled one between them.
C2_Witness ==
    \E f \in Frames :
        /\ Finished(f)
        /\ Len(f.visited) = 3
        /\ f.visited[1].invoked /\ ~f.visited[2].invoked /\ f.visited[3].invoked
        /\ f.visited[1].sub < f.visited[2].sub
        /\ f.visited[2].sub < f.visited[3].sub

\* C3: for a string event name, a subscription made with on is out of storage
\* once its cancel function has been called and no emit invokes its handler
\* from then on, while an on subscription whose cancel function has not been
\* called is stored and is invoked when its turn comes, as is every other
\* subscription that is live at its turn.
C3_CancelStopsDelivery ==
    /\ \A i \in 1..Len(subs) :
          (IsStringSub(i) /\ ~subs[i].once) => (Stored(i) <=> ~Cancelled(subs[i]))
    /\ \A f \in Frames : \A t \in Turns(f) :
          /\ (t.sub # 0 /\ ~IsSymbol(f.eventName) /\ ~subs[t.sub].once)
                => (t.invoked <=> ~t.wasCancelled)
          /\ (~IsSymbol(f.eventName) /\ WasLive(t)) => t.invoked

\* An emit of a string event, begun after the cancel function of an on
\* subscription to it was called, has returned without a turn for that
\* subscription and after invoking another one.
C3_Witness ==
    \E f \in Frames :
        /\ Finished(f)
        /\ ~IsSymbol(f.eventName)
        /\ \E i \in 1..f.subs0 :
              /\ subs[i].eventName = f.eventName
              /\ ~subs[i].once
              /\ Cancelled(subs[i])
              /\ i \notin f.live0
              /\ \A t \in Turns(f) : t.sub # i
        /\ \E t \in Turns(f) : t.invoked /\ ~subs[t.sub].once

\* The frames of the emits of eventName in progress below depth d: the
\* emits of eventName that were begun before the one at depth d and have
\* not returned.
OuterEmits(d, eventName) ==
    {stack[k] : k \in {k \in 1..(d - 1) : stack[k].eventName = eventName}}

\* C4 as stated: for a string event name, the handler of a once subscription
\* is invoked by the first emit of the event made after the subscription,
\* with the arguments of that emit, and by no later one.
C4_OnceInvokedByFirstEmit ==
    \A d \in 1..Len(stack) : \A t \in Turns(stack[d]) :
        (t.invoked /\ t.sub # 0 /\ subs[t.sub].once /\ ~IsSymbol(stack[d].eventName))
            => /\ ~t.wasFired
               /\ t.args = stack[d].emitArgs
               /\ \A g \in OuterEmits(d, stack[d].eventName) : t.sub \notin g.live0

\* C4, amended: for a string event name, the handler of a once subscription
\* whose cancel function is not called is invoked exactly once, with the
\* arguments of the emit that invokes it: it has not been invoked before, it
\* has been invoked when an emit of the event made after the subscription
\* returns (by that emit or by an emit nested in it), and it is out of
\* storage from its invocation on.  Subscriptions made with on are invoked
\* at every turn they get.
C4_OnceInvokedExactlyOnce ==
    /\ \A f \in Frames : \A t \in Turns(f) :
          (t.sub # 0 /\ ~IsSymbol(f.eventName)) =>
              /\ (t.invoked /\ subs[t.sub].once) =>
                    /\ ~t.wasFired
                    /\ t.args = f.emitArgs
                    /\ t.h = subs[t.sub].h
              /\ (~subs[t.sub].once /\ ~t.wasCancelled) => t.invoked
    /\ \A f \in Frames :
          (Finished(f) /\ ~IsSymbol(f.eventName)) =>
              \A i \in f.live0 :
                  (subs[i].once /\ ~Cancelled(subs[i])) => subs[i].fired
    /\ \A i \in 1..Len(subs) :
          (IsStringSub(i) /\ subs[i].once /\ subs[i].fired) => ~Stored(i)

\* A second emit of a string event has returned: it invoked an on
\* subscription and gave no turn to a once subscription that an earlier
\* emit had delivered to and whose cancel function was never called.
C4_Witness ==
    \E f \in Frames :
        /\ Finished(f)
        /\ ~IsSymbol(f.eventName)
        /\ \E i \in 1..f.subs0 :
              /\ subs[i].eventName = f.eventName
              /\ subs[i].once /\ subs[i].fired /\ ~Cancelled(subs[i])
              /\ \A t \in Turns(f) : t.sub # i
        /\ \E t \in Turns(f) : t.invoked /\ ~subs[t.sub].once

\* C5: a subscription created while an emit of its event is in progress is
\* not invoked by that emit; in an emit made after its creation it gets its
\* turn, and its handler is invoked there after those of all subscriptions
\* registered before it that are live at their turn; when such an emit
\* returns and no cancel function of the subscription was called, its
\* handler has been invoked.
C5_AddedDuringEmit ==
    \A f \in Frames :
        /\ \A t \in Turns(f) : t.sub <= f.subs0
        /\ \A id \in Range(f.keys) : SubOfId(id) <= f.subs0
        /\ \A i \in f.live0 :
              \/ \E t \in Turns(f) : t.sub = i
              \/ ~Finished(f) /\ subs[i].id \in Range(f.keys)
        /\ \A k \in 1..Len(f.visited) :
              f.visited[k].invoked =>
                  \A j \in f.live0 :
                      j < f.visited[k].sub =>
                          \E m \in 1..(k - 1) : f.visited[m].sub = j
        /\ Finished(f) =>
              \A i \in f.live0 :
                  ~Cancelled(subs[i]) =>
                      \/ \E t \in Turns(f) : t.sub = i /\ t.invoked
                      \/ subs[i].once /\ subs[i].fired

\* A handler of an emit in progress has created a subscription to the same
\* event; a nested emit of the event, made after that, has invoked the
\* handlers registered earlier and then the new one, and is about to return
\* to the outer emit, which has not visited and will not visit the new one.
C5_Witness ==
    /\ Len(stack) = 2
    /\ stack[1].eventName = stack[2].eventName
    /\ Finished(stack[2])
    /\ \E i \in 1..Len(subs) :
          /\ i > stack[1].subs0
          /\ subs[i].eventName = stack[1].eventName
          /\ subs[i].id \notin Range(stack[1].keys)
          /\ \E k \in 2..Len(stack[2].visited) :
                /\ stack[2].visited[k].sub = i
                /\ stack[2].visited[k].invoked
                /\ stack[2].visited[k - 1].invoked

\* C6: in an emit of a string event name, a subscription that was live when
\* the emit began and whose cancel function is called before its turn is out
\* of storage while it waits for its turn and is not invoked when the turn
\* comes; one whose cancel function is called after its handler was invoked
\* keeps that invocation and has no second turn.
C6_CancelDuringEmit ==
    \A f \in Frames :
        ~IsSymbol(f.eventName) =>
            /\ \A id \in Range(f.keys) :
                  (SubOfId(id) # 0 /\ Cancelled(subs[SubOfId(id)]))
                      => ~HasKey(handlers[f.eventName], id)
            /\ \A t \in Turns(f) :
                  /\ (t.sub # 0 /\ t.wasCancelled) => ~t.invoked
                  /\ (t.sub # 0 /\ t.invoked) => subs[t.sub].id \notin Range(f.keys)

\* A handler of an emit of a string event has called the cancel functions of
\* two on subscriptions that were live when the emit began: one invoked
\* earlier in the pass, whose invocation stands, and one that was still
\* waiting, which the pass then skipped.
C6_Witness ==
    \E f \in Frames :
        /\ Finished(f)
        /\ ~IsSymbol(f.eventName)
        /\ \E a, b, c \in 1..Len(f.visited) :
              /\ a < b /\ b < c
              /\ f.visited[a].invoked /\ ~f.visited[a].wasCancelled
              /\ f.visited[a].sub \in f.live0
              /\ Cancelled(subs[f.visited[a].sub])
              /\ f.visited[b].invoked
              /\ ~f.visited[c].invoked /\ f.visited[c].wasCancelled
              /\ f.visited[c].sub \in f.live0
              /\ ~subs[f.visited[c].sub].once

\* C7: calling a cancel function that has been called before changes
\* nothing in the registry: no subscription is removed, whatever it governs.
C7_CancelIdempotent ==
    [][lastOp' = "again" =>
          /\ handlers' = handlers
          /\ nextSubscriptionIdNumber' = nextSubscriptionIdNumber]_vars

\* A cancel function has just been called again while subscriptions that it
\* does not govern are stored.
C7_Witness ==
    /\ lastOp = "again"
    /\ \E e \in DOMAIN handlers : handlers[e] # <<>>

\* The subscriptions that the cancel function c governs.
Governed(c) == {i \in 1..Len(subs) : subs[i].canceller = c}

\* C8: for string event names, once the cancel function of a subscribe call
\* has been called none of the subscriptions the call created is stored or
\* invoked, and a subscription made by another call, whose own cancel
\* function was not called and which did not fire once, stays stored and is
\* invoked at its turns.
C8_BatchCancel ==
    \A c \in 1..Len(cancellers) :
        /\ Len(cancellers[c].ids) = Cardinality(Governed(c))
        /\ cancellers[c].calls > 0 =>
              /\ \A i \in Governed(c) : IsStringSub(i) => ~Stored(i)
              /\ \A f \in Frames : \A t \in Turns(f) :
                    (t.sub \in Governed(c) /\ IsStringSub(t.sub) /\ t.invoked)
                        => ~t.wasCancelled
              /\ \A j \in 1..Len(subs) :
                    (j \notin Governed(c) /\ IsStringSub(j) /\ Live(subs[j]))
                        => Stored(j)
              /\ \A f \in Frames : \A t \in Turns(f) :
                    (t.sub # 0 /\ t.sub \notin Governed(c) /\ WasLive(t)) => t.invoked

\* The cancel function of a subscribe call that created subscriptions to two
\* string events has been called, and an emit begun after that has invoked a
\* subscription made by another call to one of the two events without
\* giving a turn to the one the subscribe call had created for it.
C8_Witness ==
    \E c \in 1..Len(cancellers) :
        /\ cancellers[c].calls > 0
        /\ Cardinality({subs[i].eventName : i \in Governed(c)}) = 2
        /\ \A i \in Governed(c) : IsStringSub(i)
        /\ \E f \in Frames :
              /\ Finished(f)
              /\ \E i \in Governed(c) :
                    /\ subs[i].eventName = f.eventName
                    /\ i \notin f.live0 /\ i <= f.subs0
                    /\ \A t \in Turns(f) : t.sub # i
              /\ \E t \in Turns(f) : t.invoked /\ t.sub \notin Governed(c)

\* C9 as stated: once the cancel function of a subscription to a unique
\* symbol event name has been called, the subscription is out of storage and
\* no emit invokes its handler.
C9_SymbolCancel ==
    /\ \A i \in 1..Len(subs) :
          (IsSymbol(subs[i].eventName) /\ Cancelled(subs[i])) => ~Stored(i)
    /\ \A f \in Frames : \A t \in Turns(f) :
          (IsSymbol(f.eventName) /\ t.sub # 0 /\ t.wasCancelled) => ~t.invoked

\* C10 as stated: the handler of a once subscription to a unique symbol event
\* name is invoked by the first emit of the event and by no later one, and
\* the subscription is out of storage from that delivery on.
C10_SymbolOnce ==
    /\ \A i \in 1..Len(subs) :
          (IsSymbol(subs[i].eventName) /\ subs[i].once /\ subs[i].fired) => ~Stored(i)
    /\ \A f \in Frames : \A t \in Turns(f) :
          (IsSymbol(f.eventName) /\ t.sub # 0 /\ t.wasFired) => ~t.invoked

\* The cancel functions that subscribe returned for a handler map with two
\* entries that hold a handler.
Batches == {c \in 1..Len(cancellers) : Cardinality(Governed(c)) >= 2}

\* C11 as stated: among the subscriptions that one subscribe call created and
\* whose cancel function has not been called, one made with the once() marker
\* is out of storage from its first delivery on, whatever its event name, and
\* every other one (plain, or once-marked and not yet delivered to) is stored.
C11_OncePerEntry ==
    \A c \in Batches :
        cancellers[c].calls = 0 =>
            \A i \in Governed(c) :
                Stored(i) <=> ~(subs[i].once /\ subs[i].fired)

\* The storage of one event without the subscriptions of the given ids.
Without(eventHandlers, ids) ==
    LET Keep(entry) == entry.id \notin Range(ids) IN SelectSeq(eventHandlers, Keep)

\* C12: for string event names, the first call of a cancel function of
\* which some subscription has already fired once and removed itself takes
\* exactly the subscriptions it governs that are still stored out of
\* storage and changes nothing else; when every subscription it governs has
\* already fired once (a cancel function returned by once, after the
\* delivery) the call changes nothing at all.
C12_CancelAfterSelfCancel ==
    [][\A c \in 1..Len(cancellers) :
          (/\ cancellers[c].calls = 0
           /\ cancellers'[c].calls > 0
           /\ \A i \in Governed(c) : IsStringSub(i)
           /\ \E i \in Governed(c) : subs[i].once /\ subs[i].fired)
              => /\ DOMAIN handlers' = DOMAIN handlers
                 /\ \A e \in DOMAIN handlers :
                       handlers'[e] = Without(handlers[e], cancellers[c].ids)
                 /\ \A i \in Governed(c) : ~Stored(i)'
                 /\ (\A i \in Governed(c) : subs[i].once /\ subs[i].fired)
                       => handlers' = handlers
                 /\ nextSubscriptionIdNumber' = nextSubscriptionIdNumber]_vars

\* Both cases have happened: the cancel function of a subscribe call for two
\* string events was called after one of its two once-marked subscriptions
\* had fired, which took the other one out of storage, and the cancel
\* function returned by a once call was called after its handler had fired.
C12_Witness ==
    /\ \E c \in Batches :
          /\ cancellers[c].calls > 0
          /\ \A i \in Governed(c) : IsStringSub(i) /\ subs[i].once
          /\ \E i, j \in Governed(c) :
                subs[i].fired /\ ~subs[j].fired /\ ~Stored(j)
    /\ \E c \in 1..Len(cancellers) :
          /\ cancellers[c].calls > 0
          /\ Cardinality(Governed(c)) = 1
          /\ \A i \in Governed(c) : IsStringSub(i) /\ subs[i].once /\ subs[i].fired

\* The entries of a handler map for one event that hold a handler.
PresentFor(map, eventName) ==
    LET Holds(p) == p.eventName = eventName /\ p.value \notin {Undefined, Null}
    IN  SelectSeq(map, Holds)

\* C13: whatever handler map subscribe is called with, it returns one cancel
\* function for each entry that holds a handler and uses as many subscription
\* ids; for each event it leaves what was stored in place and adds one
\* subscription, holding the entry's handler, when the map has an entry for
\* the event that holds a handler, and nothing when the entry is undefined
\* or null.  Every handler that an emit invokes is the handler of a
\* subscription that was asked for.
C13_NullishEntriesSkipped ==
    /\ \A map \in HandlerMaps :
          LET r == subscribe(handlers, nextSubscriptionIdNumber, map)
          IN  /\ Len(r.cancelFunctions) = Len(Requested(map))
              /\ r.next = nextSubscriptionIdNumber + Len(Requested(map))
              /\ \A e \in names :
                    LET old == EventHandlersOf(handlers, e)
                        new == EventHandlersOf(r.handlers, e)
                        asked == PresentFor(map, e)
                    IN  /\ Len(new) = Len(old) + Len(asked)
                        /\ SubSeq(new, 1, Len(old)) = old
                        /\ asked # <<>> =>
                              new[Len(new)].fn.handler =
                                  IF asked[1].value.typeof = "object"
                                  THEN asked[1].value.handler
                                  ELSE asked[1].value.fn
    /\ \A f \in Frames : \A t \in Turns(f) :
          t.invoked => t.sub # 0 /\ t.h = subs[t.sub].h

\* subscribe was called with a map whose only entry, for foo, holds
\* undefined or null, which returned a cancel function bound to nothing; an
\* emit of foo made after a later subscription to foo has returned, having
\* visited only the subscriptions that other calls made.
C13_Witness ==
    \E c \in 1..Len(cancellers) :
        /\ cancellers[c].ids = <<>>
        /\ \E f \in Frames :
              /\ Finished(f)
              /\ f.eventName = "foo"
              /\ \E t \in Turns(f) : t.invoked /\ subs[t.sub].canceller > c
              /\ Len(f.visited) = Cardinality({i \in 1..f.subs0 : subs[i].eventName = "foo"})

\* C14: an emit of E visits and invokes only subscriptions to E, and no step
\* of an emit (the call, an iteration of its loop with the handler call it
\* makes, the return of a handler, the return of the emit) changes what is
\* stored for an event other than E; the steps of an emit other than the
\* iterations of its loop change nothing in storage.
C14_EventIsolation ==
    /\ [](\A f \in Frames :
             /\ \A t \in Turns(f) :
                   t.sub # 0 /\ subs[t.sub].eventName = f.eventName
             /\ \A id \in Range(f.keys) :
                   SubOfId(id) # 0 /\ subs[SubOfId(id)].eventName = f.eventName)
    /\ [][stack' # stack =>
             \A e \in names :
                 IF Len(stack') = Len(stack) /\ e = Top.eventName
                 THEN TRUE
                 ELSE /\ (e \in DOMAIN handlers') <=> (e \in DOMAIN handlers)
                      /\ EventHandlersOf(handlers', e) = EventHandlersOf(handlers, e)]_vars

\* An emit has returned after invoking a once subscription, whose wrapper
\* cancelled it, and an on subscription to its event, while a subscription
\* to another event, made before the emit, is still stored.
C14_Witness ==
    /\ Len(stack) = 1
    /\ Finished(stack[1])
    /\ \E t \in Turns(stack[1]) : t.invoked /\ subs[t.sub].once
    /\ \E t \in Turns(stack[1]) : t.invoked /\ ~subs[t.sub].once
    /\ \E i \in 1..stack[1].subs0 :
          subs[i].eventName # stack[1].eventName /\ Stored(i)

\* C15 as stated: an emit of an event that has no live subscription when it
\* is called (none was made, or each one was cancelled or has fired once)
\* finds no key to visit, so that it invokes no handler, and neither the
\* call nor the return of an emit changes the registry.
C15_EmitWithoutSubscribers ==
    [][/\ (Len(stack') > Len(stack) /\ LiveSubs(Top'.eventName) = {})
             => /\ Top'.keys = <<>>
                /\ handlers' = handlers
                /\ nextSubscriptionIdNumber' = nextSubscriptionIdNumber
       /\ Len(stack') < Len(stack)
             => /\ handlers' = handlers
                /\ nextSubscriptionIdNumber' = nextSubscriptionIdNumber]_vars

\* The subscription that onceAsPromise made for the p-th promise.
SubOfPromise(p) ==
    CHOOSE i \in 1..Len(subs) : subs[i].h = ResolverNames[p]

Resolved(p) == promises[p].promise.state = "resolved"

\* C16 as stated: a promise returned by onceAsPromise(E) that is resolved
\* holds the argument list of the first emit of E called after the
\* onceAsPromise call.
C16_ResolvedByFirstEmit ==
    \A p \in 1..Len(promises) :
        Resolved(p) =>
            /\ promises[p].first # <<>>
            /\ promises[p].promise.value = promises[p].first[1]

\* C16, amended: a promise returned by onceAsPromise(E) is resolved by an
\* iteration of the loop of an emit of E, with exactly the argument list of
\* that emit; it is resolved when an emit of E called after the
\* onceAsPromise call returns (by that emit or by an emit of E nested in
\* it); once resolved, its state and value never change.
C16_ResolvedOnceByEmit ==
    /\ [](\A f \in Frames : \A p \in 1..Len(promises) :
             (Finished(f) /\ SubOfPromise(p) \in f.live0) => Resolved(p))
    /\ [][\A p \in 1..Len(promises) :
             IF Resolved(p)
             THEN promises'[p].promise = promises[p].promise
             ELSE Resolved(p)' =>
                     /\ stack # <<>>
                     /\ Len(stack') = Len(stack)
                     /\ Top.eventName = promises[p].eventName
                     /\ Len(Top'.visited) = Len(Top.visited) + 1
                     /\ promises'[p].promise.value = Top.emitArgs]_vars

\* An emit of the event of a resolved promise, called after the resolution
\* with other arguments than the value, has returned: it gave no turn to the
\* promise's subscription and the value is the one of the first emit.
C16_Witness ==
    \E p \in 1..Len(promises) :
        /\ Resolved(p)
        /\ promises[p].promise.value = promises[p].first[1]
        /\ \E f \in Frames :
              /\ Finished(f)
              /\ f.eventName = promises[p].eventName
              /\ SubOfPromise(p) <= f.subs0
              /\ SubOfPromise(p) \notin f.live0
              /\ \A t \in Turns(f) : t.sub # SubOfPromise(p)
              /\ f.emitArgs # promises[p].promise.value

\* C17: a promise returned by onceAsPromise(E) is pending as long as no emit
\* of E has been called since the onceAsPromise call, whatever else was
\* done, and it is never in another state than pending or resolved.
C17_PendingUntilEmitted ==
    \A p \in 1..Len(promises) :
        /\ promises[p].promise.state \in {"pending", "resolved"}
        /\ promises[p].first = <<>> => promises[p].promise.state = "pending"

\* A promise is pending, its event not emitted since the call, after an
\* emit of another event, called after the onceAsPromise call, has invoked a
\* handler and a cancel function has been called.
C17_Witness ==
    \E p \in 1..Len(promises) :
        /\ promises[p].promise.state = "pending"
        /\ promises[p].first = <<>>
        /\ Stored(SubOfPromise(p))
        /\ \E c \in 1..Len(cancellers) : cancellers[c].calls > 0
        /\ \E f \in Frames :
              /\ Finished(f)
              /\ f.eventName # promises[p].eventName
              /\ SubOfPromise(p) <= f.subs0
              /\ \E t \in Turns(f) : t.invoked

\* C18: the object that toEventSource returns is not the emitter, its
\* members are exactly on, once, onceAsPromise and subscribe, and as long as
\* nothing but its methods and the cancel functions they returned has been
\* called no emit is in progress, no handler has been invoked and no promise
\* has been resolved.
C18_ViewCannotEmit ==
    /\ toEventSource # EmitterMembers
    /\ DOMAIN toEventSource = {"on", "once", "onceAsPromise", "subscribe"}
    /\ ~HasMember("source", "emit")
    /\ ~direct =>
          /\ stack = <<>>
          /\ \A i \in 1..Len(subs) : ~subs[i].fired
          /\ \A p \in 1..Len(promises) : ~Resolved(p)

\* Through the view alone, a promise was asked for, which is pending, as
\* many subscriptions were made as the bounds allow, and a cancel function
\* was called.
C18_Witness ==
    /\ ~direct
    /\ Len(subs) = MaxSubs
    /\ Len(promises) = 1 /\ ~Resolved(1)
    /\ \E c \in 1..Len(cancellers) : cancellers[c].calls > 0 /\ Governed(c) # {}

\* The subscriptions stored for an event are in the order they were made.
InOrder(eventHandlers) ==
    \A i, j \in 1..Len(eventHandlers) :
        i < j => SubOfId(eventHandlers[i].id) < SubOfId(eventHandlers[j].id)

C20_OnceCancelledBeforeEmit ==
    /\ [](/\ \A i \in 1..Len(subs) :
                (IsStringSub(i) /\ subs[i].once /\ Cancelled(subs[i]) /\ ~subs[i].fired)
                    => ~Stored(i)
          /\ \A f \in Frames : \A t \in Turns(f) :
                (t.sub # 0 /\ ~IsSymbol(f.eventName) /\ subs[t.sub].once
                 /\ t.wasCancelled /\ ~t.wasFired) => ~t.invoked)
    /\ [][\A i \in 1..Len(subs) :
             (IsStringSub(i) /\ subs[i].once /\ Cancelled(subs[i]) /\ ~subs[i].fired)
                 => ~subs'[i].fired]_vars

\* The cancel function of a once subscription to a string event was called
\* before any emit of the event; an emit of the event called after that has
\* returned, having invoked another subscription and given no turn to the
\* cancelled one, whose handler was never invoked.
C20_Witness ==
    /\ Len(stack) = 1
    /\ Finished(stack[1])
    /\ ~IsSymbol(stack[1].eventName)
    /\ \E i \in 1..stack[1].subs0 :
          /\ subs[i].eventName = stack[1].eventName
          /\ subs[i].once /\ Cancelled(subs[i]) /\ ~subs[i].fired
          /\ i \notin stack[1].live0
          /\ \A t \in Turns(stack[1]) : t.sub # i
    /\ \E t \in Turns(stack[1]) : t.invoked

----------------------------------------------------------------------------
\* A step in which the running handler of the innermost emit returns.
IsHandlerReturn ==
    IF stack = <<>> \/ Len(stack') # Len(stack) THEN FALSE
    ELSE Top.cur # NoCur /\ Top'.cur = NoCur

\* A step in which the innermost emit returns to its caller.
IsEmitReturn == Len(stack') < Len(stack) /\ thrown' = <<>>

\* C21: emit ignores what a handler returns.  Whatever the value (undefined,
\* false, a pending or a rejected promise), the return of a handler changes
\* nothing but the position of the loop: the keys left to visit, the
\* registry and the promises are as they were, so the pass neither stops
\* nor skips; an emit that returns has given every subscription that was
\* live when it was called its turn, and has invoked each one still live at
\* its turn; and the result of emit is undefined.
C21_ReturnValuesIgnored ==
    /\ [][IsHandlerReturn =>
            /\ stack' = [stack EXCEPT ![Len(stack)].cur = NoCur]
            /\ Pending(Top)' = Pending(Top)
            /\ handlers' = handlers
            /\ promises' = promises]_vars
    /\ [][IsEmitReturn => lastOp' = "other"]_vars
    /\ [](\A f \in Frames :
            Finished(f) =>
                /\ \A i \in f.live0 : \E t \in Turns(f) : t.sub = i
                /\ \A t \in Turns(f) : WasLive(t) => t.invoked)

\* A handler has just returned a value other than undefined, and the loop
\* still has the key of a live subscription to visit.
C21_Witness ==
    /\ lastOp = "value"
    /\ stack # <<>>
    /\ IF stack = <<>> THEN FALSE
       ELSE /\ Top.cur = NoCur
            /\ Len(Top.visited) >= 1
            /\ Pending(Top) # <<>>
            /\ \E i \in Top.live0 :
                  /\ subs[i].id = Head(Pending(Top))
                  /\ Live(subs[i])
                  /\ Stored(i)

----------------------------------------------------------------------------
\* The subscriptions whose handlers are running: one in each emit in
\* progress that is not between two handlers.
Running == {SubOfId(f.cur) : f \in {g \in Frames : g.cur # NoCur}}

\* C22: a once subscription to a string event is removed before its handler
\* runs.  From the moment the handler begins until it returns or throws, the
\* id of the subscription is absent from the storage of the event, and the
\* step that starts the handler is the step that removes it.
C22_RemovedBeforeHandlerRuns ==
    /\ [](\A i \in Running \ {0} :
            (subs[i].once /\ ~IsSymbol(subs[i].eventName)) => ~Stored(i))
    /\ [][\A i \in 1..Len(subs) :
            (i \in Running' /\ i \notin Running /\ subs[i].once
                /\ ~IsSymbol(subs[i].eventName))
            => (Stored(i) /\ ~Stored(i)')]_vars

\* The handler of a once subscription to a string event, which no cancel
\* function has touched, is running and the subscription is gone, while
\* another subscription to the event is still stored.
C22_Witness ==
    \E f \in Frames :
        /\ f.cur # NoCur
        /\ ~IsSymbol(f.eventName)
        /\ \E i \in 1..Len(subs) :
              /\ subs[i].id = f.cur
              /\ subs[i].once
              /\ ~Cancelled(subs[i])
              /\ ~Stored(i)
        /\ \E j \in 1..Len(subs) : subs[j].eventName = f.eventName /\ Stored(j)

----------------------------------------------------------------------------
\* The id of subscription i is a key of no entry of this.handlers.
Gone(i) == \A e \in DOMAIN handlers : ~HasKey(handlers[e], subs[i].id)

\* The once subscriptions to string events whose wrappedHandler has run.
FiredOnString ==
    {i \in 1..Len(subs) :
        subs[i].once /\ subs[i].fired /\ ~IsSymbol(subs[i].eventName)}

\* C23: when the handler of a once subscription to a string event throws
\* during its first invocation, the subscription is removed all the same.
\* After the exception its id is a key of no entry of the registry, the
\* throw itself changes neither the registry nor the counter, and from the
\* first invocation on the subscription is never stored and never invoked
\* again, whether that invocation returned or threw.
C23_ThrowingOnceRemoved ==
    /\ [](\A k \in DOMAIN thrown :
            thrown[k] \in FiredOnString => Gone(thrown[k]))
    /\ [][thrown' # <<>> =>
            /\ handlers' = handlers
            /\ nextSubscriptionIdNumber' = nextSubscriptionIdNumber
            /\ subs' = subs]_vars
    /\ [](\A i \in FiredOnString : Gone(i))
    /\ [](\A f \in Frames : \A t \in Turns(f) :
            (t.sub \in FiredOnString /\ t.wasFired) => ~t.invoked)
    /\ [][\A i \in FiredOnString : i \in FiredOnString' /\ i \notin Running' \ Running]_vars

\* The handler of a once subscription to a string event, which no cancel
\* function has touched, has just thrown out of the outermost emit; its id
\* is gone while a live subscription to the same event is stored.
C23_Witness ==
    /\ thrown # <<>>
    /\ stack = <<>>
    /\ IF thrown = <<>> THEN FALSE
       ELSE /\ thrown[1] \in FiredOnString
            /\ ~Cancelled(subs[thrown[1]])
            /\ Gone(thrown[1])
            /\ \E j \in 1..Len(subs) :
                  /\ subs[j].eventName = subs[thrown[1]].eventName
                  /\ Live(subs[j])
                  /\ Stored(j)

----------------------------------------------------------------------------
\* Every key of the registry is the id of a subscription asked for, under
\* the event name it was asked for, with the handler that was passed, and
\* the keys of each event are in the order in which they were stored.
RegistrySound ==
    \A e \in DOMAIN handlers :
        /\ InOrder(handlers[e])
        /\ \A k \in 1..Len(handlers[e]) :
              \E i \in 1..Len(subs) :
                  /\ subs[i].id = handlers[e][k].id
                  /\ subs[i].eventName = e
                  /\ handlers[e][k].fn.handler = subs[i].h
                  /\ handlers[e][k].fn.wrapped = subs[i].once

\* C24: a handler that throws during an emit never corrupts the registry.
\* The exception changes nothing of the registry, the counter, the cancel
\* functions or the promises: every subscription is stored after it exactly
\* as it was before it.  The registry is sound in every state, every live
\* subscription is stored and every cancelled subscription to a string
\* event is absent; and every emit, the ones that follow an exception
\* included, visits the subscriptions that were live at its call in
\* registration order and invokes each one that is live at its turn.
C24_ThrowKeepsRegistry ==
    /\ [][thrown' # <<>> =>
            /\ handlers' = handlers
            /\ nextSubscriptionIdNumber' = nextSubscriptionIdNumber
            /\ cancellers' = cancellers
            /\ promises' = promises
            /\ \A i \in 1..Len(subs) : Stored(i)' = Stored(i)]_vars
    /\ [](RegistrySound)
    /\ [](\A i \in 1..Len(subs) :
            /\ Live(subs[i]) => Stored(i)
            /\ (Cancelled(subs[i]) /\ ~IsSymbol(subs[i].eventName)) => ~Stored(i))
    /\ [](\A f \in Frames :
            /\ \A i \in f.live0 :
                  \/ \E t \in Turns(f) : t.sub = i
                  \/ subs[i].id \in Range(Pending(f))
            /\ \A t \in Turns(f) : WasLive(t) => t.invoked
            /\ \A a, b \in 1..Len(f.visited) :
                  (a < b /\ f.visited[a].sub # 0 /\ f.visited[b].sub # 0)
                  => f.visited[a].sub < f.visited[b].sub)

\* The handler of an on subscription has just thrown out of the outermost
\* emit.  The subscription is stored and live as before, and so is a
\* subscription to the same event registered after it, which the pass that
\* the exception ended had not reached or had already served.
C24_Witness ==
    /\ thrown # <<>>
    /\ stack = <<>>
    /\ IF thrown = <<>> THEN FALSE
       ELSE /\ thrown[1] # 0
            /\ ~subs[thrown[1]].once
            /\ Live(subs[thrown[1]])
            /\ Stored(thrown[1])
            /\ \E j \in 1..Len(subs) :
                  /\ j > thrown[1]
                  /\ subs[j].eventName = subs[thrown[1]].eventName
                  /\ Live(subs[j])
                  /\ Stored(j)

----------------------------------------------------------------------------
\* The cancel functions returned by on or once that the step calls for the
\* first time while the handler of the subscription they govern is running
\* in the innermost emit.
SelfCancels ==
    {c \in 1..Len(cancellers) :
        /\ cancellers[c].calls = 0
        /\ cancellers'[c].calls = 1
        /\ IF stack = <<>> THEN FALSE
           ELSE Top.cur # NoCur /\ Governed(c) = {SubOfId(Top.cur)}}

\* C25: the handler of an on subscription to a string event may call its own
\* cancel function while it is being invoked.  The call removes the
\* subscription from storage and nothing else; the invocation goes on, and
\* the loop keeps the keys it had left to visit.  Every subscription that
\* was live at the call of the emit still gets its turn and is invoked when
\* live at its turn, and a pass that meets the key of a cancelled on
\* subscription does not invoke it.
C25_SelfCancelDuringInvocation ==
    /\ [][\A c \in SelfCancels :
            LET i == SubOfId(Top.cur) IN
            (~subs[i].once /\ IsStringSub(i)) =>
                /\ stack' = stack
                /\ Pending(Top)' = Pending(Top)
                /\ Stored(i) /\ ~Stored(i)'
                /\ handlers' = [handlers EXCEPT ![subs[i].eventName] =
                                    Without(@, <<subs[i].id>>)]]_vars
    /\ [](\A f \in Frames :
            /\ \A i \in f.live0 :
                  \/ \E t \in Turns(f) : t.sub = i
                  \/ subs[i].id \in Range(Pending(f))
            /\ \A t \in Turns(f) :
                  /\ WasLive(t) => t.invoked
                  /\ (t.sub # 0 /\ t.wasCancelled) =>
                        (IsStringSub(t.sub) => ~t.invoked))
    /\ [](\A i \in 1..Len(subs) :
            (Cancelled(subs[i]) /\ IsStringSub(i)) => ~Stored(i))

\* No emit is nested (the interface has two events).  The first handler of
\* the pass was invoked while its on subscription to a string event was
\* live, has returned, and the subscription is now cancelled and gone: it
\* cancelled itself.  The loop goes on to the key of a live subscription.
C25_Witness ==
    /\ Cardinality(names) = 2
    /\ Len(stack) = 1
    /\ IF stack = <<>> THEN FALSE
       ELSE /\ Top.cur = NoCur
            /\ Len(Top.visited) = 1
            /\ ~IsSymbol(Top.eventName)
            /\ LET t == Top.visited[1] IN
                  /\ t.invoked
                  /\ WasLive(t)
                  /\ ~subs[t.sub].once
                  /\ Governed(subs[t.sub].canceller) = {t.sub}
                  /\ Cancelled(subs[t.sub])
                  /\ ~Stored(t.sub)
            /\ Pending(Top) # <<>>
            /\ \E j \in Top.live0 :
                  /\ subs[j].id = Head(Pending(Top))
                  /\ Live(subs[j])
                  /\ Stored(j)

----------------------------------------------------------------------------
\* The number that the counter had when the id of subscription i was made.
IdNumber(i) == subs[i].id[2]

\* C26: subscription ids are unique and never reused.  No two subscriptions
\* ever asked for of one emitter, stored, cancelled or fired, have the same
\* id, whatever their events; no two records of the registry have the same
\* key; every id was made from a value the counter has left behind; the
\* counter never decreases, and a step that creates subscriptions gives them
\* ids made from the values it steps over.
C26_IdsUnique ==
    /\ [](\A i, j \in 1..Len(subs) : i # j => subs[i].id # subs[j].id)
    /\ [](\A i \in 1..Len(subs) :
            /\ subs[i].id = SubscriptionId(IdNumber(i))
            /\ IdNumber(i) < nextSubscriptionIdNumber)
    /\ [](\A e1, e2 \in DOMAIN handlers :
            \A k1 \in 1..Len(handlers[e1]), k2 \in 1..Len(handlers[e2]) :
                handlers[e1][k1].id = handlers[e2][k2].id => (e1 = e2 /\ k1 = k2))
    /\ [][/\ nextSubscriptionIdNumber' >= nextSubscriptionIdNumber
          /\ nextSubscriptionIdNumber' - nextSubscriptionIdNumber
                = Len(subs') - Len(subs)
          /\ \A i \in (Len(subs) + 1)..Len(subs') :
                subs'[i].id[2] >= nextSubscriptionIdNumber]_vars

\* An on subscription to the event of the emit in progress was cancelled
\* before the emit was called, and a subscription was created after the
\* call: it is stored under an id made from a larger number, the id of no
\* other subscription.
C26_Witness ==
    /\ Len(stack) = 1
    /\ IF stack = <<>> THEN FALSE
       ELSE \E i \in 1..Top.subs0, j \in (Top.subs0 + 1)..Len(subs) :
              /\ subs[i].eventName = Top.eventName
              /\ ~subs[i].once
              /\ i \notin Top.live0
              /\ Cancelled(subs[i])
              /\ ~Stored(i)
              /\ Stored(j)
              /\ IdNumber(j) > IdNumber(i)
              /\ \A k \in 1..Len(subs) : k # j => subs[k].id # subs[j].id

----------------------------------------------------------------------------
\* The ids stored for the event name.
StoredIds(eventName) == Range(Keys(EventHandlersOf(handlers, eventName)))

\* The ids of the subscriptions created for the event name whose cancel
\* function has not been called and whose once wrapper has not run.
ExpectedIds(eventName) ==
    {subs[i].id : i \in {j \in 1..Len(subs) :
                            subs[j].eventName = eventName /\ Live(subs[j])}}

\* C27 as stated: in every state and for every event name, a string or a
\* unique symbol, the ids stored for the name are exactly those of the
\* subscriptions created for it, less the ones whose cancel function has
\* been called and the ones that cancelled themselves through once.
C27_StorageInvariant == \A e \in names : StoredIds(e) = ExpectedIds(e)

----------------------------------------------------------------------------
\* The places of the registry H that hold a record with the id.
PlacesOf(H, id) ==
    UNION {{<<e, k>> : k \in {n \in 1..Len(H[e]) : H[e][n].id = id}} : e \in DOMAIN H}

\* The places of the registry H that hold a record.
Places(H) == UNION {{<<e, k>> : k \in 1..Len(H[e])} : e \in DOMAIN H}

\* The step calls a cancel function.
IsCancel ==
    \/ lastOp' = "again"
    \/ \E c \in 1..Len(cancellers) : cancellers'[c].calls # cancellers[c].calls

\* C28: each subscription id is stored under at most one event name, the
\* one it was registered for, and there once.  Hence cancel of an id, which
\* scans the storage of every event name, removes at most one record: the
\* storage of every other event name is as it was, and the storage of the
\* event of the id either is as it was or has lost the record of the id and
\* nothing else, the records left keeping their handlers and their order.
\* A call of a cancel function changes neither the presence, nor the handler,
\* nor the order of the records of the subscriptions it does not govern.
C28_CancelRemovesAtMostOne ==
    /\ [](\A i \in 1..Len(subs) :
            /\ PlacesOf(handlers, subs[i].id) \subseteq
                    {<<subs[i].eventName, k>> : k \in 1..MaxSubs}
            /\ Cardinality(PlacesOf(handlers, subs[i].id)) <= 1)
    /\ [](\A i \in 1..Len(subs) :
            LET H2 == cancel(handlers, subs[i].id) IN
            /\ DOMAIN H2 = DOMAIN handlers
            /\ Cardinality(Places(handlers)) - Cardinality(Places(H2)) \in {0, 1}
            /\ \A e \in DOMAIN handlers :
                  /\ H2[e] \in {handlers[e], Without(handlers[e], <<subs[i].id>>)}
                  /\ e # subs[i].eventName => H2[e] = handlers[e])
    /\ [][IsCancel =>
            \A c \in 1..Len(cancellers) :
                (cancellers'[c].calls # cancellers[c].calls \/ lastOp' = "again") =>
                \A e \in DOMAIN handlers :
                    /\ e \in DOMAIN handlers'
                    /\ \/ lastOp' = "again"
                       \/ Without(handlers'[e], cancellers[c].ids)
                            = Without(handlers[e], cancellers[c].ids)]_vars

\* Three subscriptions to one string event; the cancel function of the
\* second has been called: its record is gone, and the first and the
\* third are stored, in that order, with their handlers.
C28_Witness ==
    /\ Len(subs) = 3
    /\ subs[1].eventName = subs[2].eventName
    /\ subs[2].eventName = subs[3].eventName
    /\ ~IsSymbol(subs[1].eventName)
    /\ Cancelled(subs[2])
    /\ ~Cancelled(subs[1])
    /\ ~Cancelled(subs[3])
    /\ PlacesOf(handlers, subs[2].id) = {}
    /\ Keys(EventHandlersOf(handlers, subs[1].eventName)) = <<subs[1].id, subs[3].id>>
    /\ EventHandlersOf(handlers, subs[1].eventName)[1].fn.handler = subs[1].h
    /\ EventHandlersOf(handlers, subs[1].eventName)[2].fn.handler = subs[3].h

----------------------------------------------------------------------------
\* The invocations of the handler of subscription i by the emits in progress.
InvocationsOf(i) ==
    {<<d, k>> \in (1..Len(stack)) \X (1..MaxSubs) :
        IF k > Len(stack[d].visited) THEN FALSE
        ELSE stack[d].visited[k].sub = i /\ stack[d].visited[k].invoked}

OnceOnString == {i \in 1..Len(subs) : subs[i].once /\ IsStringSub(i)}

\* C29: the handler of a once subscription to a string event is invoked at
\* most once through that subscription over any sequence of operations,
\* nested emits and subscriptions made during a dispatch included.  Its
\* invocation starts only when it has never been invoked, and is recorded
\* for good; the emits in progress, nested or not, hold at most one
\* invocation of it between them; and a pass that meets its key after the
\* invocation, as the outer pass does after a nested emit delivered to it,
\* skips it.  Subscribing the same function again makes another
\* subscription, with its own single invocation.
C29_OnceAtMostOnce ==
    /\ [][\A i \in OnceOnString :
            /\ subs[i].fired => subs'[i].fired
            /\ i \in Running' \ Running => (~subs[i].fired /\ subs'[i].fired)]_vars
    /\ [](\A i \in OnceOnString :
            /\ Cardinality(InvocationsOf(i)) <= 1
            /\ InvocationsOf(i) # {} => subs[i].fired
            /\ i \in Running => subs[i].fired)
    /\ [](\A f \in Frames : \A t \in Turns(f) :
            t.sub \in OnceOnString => (t.invoked <=> WasLive(t)))

\* The handler h of a once subscription to a string event is running in the
\* outer emit.  During its invocation h was subscribed with once to the
\* same event again and the event was emitted again: the nested pass has
\* ended, has invoked h through the new subscription and not through
\* the first one, whose key it has not met.
C29_Witness ==
    /\ Len(stack) = 2
    /\ IF Len(stack) # 2 THEN FALSE
       ELSE /\ stack[1].eventName = stack[2].eventName
            /\ ~IsSymbol(stack[1].eventName)
            /\ Finished(stack[2])
            /\ Len(stack[1].visited) = 1
            /\ \E a \in OnceOnString, b \in OnceOnString :
                  /\ subs[a].id = stack[1].cur
                  /\ b > stack[1].subs0
                  /\ subs[b].eventName = subs[a].eventName
                  /\ subs[b].h = subs[a].h
                  /\ \E t \in Turns(stack[2]) : t.sub = b /\ t.invoked
                  /\ \A t \in Turns(stack[2]) : t.sub # a
                  /\ Cardinality(InvocationsOf(a)) = 1

----------------------------------------------------------------------------
\* The frame's loop serves the subscriptions that were live at its call:
\* each has had its turn or its key is still to be visited, the turns are
\* in registration order, and a subscription live at its turn is invoked.
Serves(f) ==
    /\ \A i \in f.live0 :
          /\ i <= f.subs0
          /\ \/ \E t \in Turns(f) : t.sub = i
             \/ subs[i].id \in Range(Pending(f))
    /\ \A t \in Turns(f) : WasLive(t) => (t.invoked /\ t.h = subs[t.sub].h)
    /\ \A a, b \in 1..Len(f.visited) :
          (a < b /\ f.visited[a].sub # 0 /\ f.visited[b].sub # 0)
          => f.visited[a].sub < f.visited[b].sub

\* C30: re-entrant emit.  While an emit called by a handler is in progress,
\* every outer emit waits inside the handler that it called: a step changes
\* no frame but the innermost.  An emit that returns has visited all its
\* keys and hands control back to the emit below it, which has the keys
\* left that it had when the inner emit was called.  Every pass, inner or
\* outer, serves in registration order the subscriptions that were live
\* when it was called, those created earlier in an outer pass included, and
\* invokes each one that is live at its turn.
C30_ReentrantEmit ==
    /\ [](\A d \in 1..(Len(stack) - 1) : stack[d].cur # NoCur)
    /\ [][\A d \in 1..(Len(stack) - 1) :
            d <= Len(stack') =>
                /\ stack'[d] = stack[d]
                /\ Pending(stack[d])' = Pending(stack[d])]_vars
    /\ [][IsEmitReturn =>
            /\ Finished(Top)
            /\ Len(stack') = Len(stack) - 1]_vars
    /\ [][Len(stack') > Len(stack) =>
            /\ Top'.live0 = LiveSubs(Top'.eventName)
            /\ Top'.subs0 = Len(subs)
            /\ Top'.keys = Keys(EventHandlersOf(handlers, Top'.eventName))]_vars
    /\ [](\A f \in Frames : Serves(f))

\* The first handler of the outer pass is running: it has subscribed a
\* third handler and emitted the event again.  The nested pass has ended:
\* it invoked the plain handler registered after the re-emitting one and
\* the handler created during the outer pass.  The outer pass has the
\* key of the plain handler still to visit, and the handler is live.
C30_Witness ==
    /\ Len(stack) = 2
    /\ IF Len(stack) # 2 THEN FALSE
       ELSE /\ stack[1].eventName = stack[2].eventName
            /\ Finished(stack[2])
            /\ Len(stack[1].visited) = 1
            /\ stack[1].cur # NoCur
            /\ \E j \in stack[1].live0 \cap stack[2].live0 :
                  /\ j > SubOfId(stack[1].cur)
                  /\ ~subs[j].once
                  /\ Live(subs[j])
                  /\ subs[j].id \in Range(Pending(stack[1]))
                  /\ \E t \in Turns(stack[2]) : t.sub = j /\ t.invoked
            /\ \E c \in stack[2].live0 :
                  /\ c > stack[1].subs0
                  /\ \E t \in Turns(stack[2]) : t.sub = c /\ t.invoked

----------------------------------------------------------------------------
\* C31: when a handler throws during an emit, the emit does not catch the
\* exception.  The step in which the handler throws ends the emit that
\* invoked it, and every emit below it that the exception leaves, without
\* another handler being invoked: the keys that the loop had left are not
\* visited in that pass.  The registry is as it was, so the subscriptions of
\* those keys stay stored; and every emit called afterwards starts from the
\* keys stored for its event and serves every live subscription.
C31_ThrowEndsThePass ==
    /\ [][thrown' # <<>> =>
            /\ Len(thrown') >= 1
            /\ Len(stack') = Len(stack) - Len(thrown')
            /\ stack' = SubSeq(stack, 1, Len(stack'))
            /\ thrown'[1] = SubOfId(Top.cur)
            /\ abandoned' = Pending(Top)
            /\ handlers' = handlers
            /\ subs' = subs
            /\ \A i \in 1..Len(subs) : Stored(i)' = Stored(i)]_vars
    /\ [][Len(stack') > Len(stack) =>
            /\ Top'.keys = Keys(EventHandlersOf(handlers, Top'.eventName))
            /\ Top'.live0 = LiveSubs(Top'.eventName)
            /\ \A i \in Top'.live0 : subs[i].id \in Range(Top'.keys)]_vars
    /\ [](\A f \in Frames : Serves(f))

\* A handler has just thrown out of the outermost emit.  The loop had the
\* key of a live subscription left to visit: the subscription is stored,
\* and its handler, that of a once subscription, has never been invoked.
C31_Witness ==
    /\ thrown # <<>>
    /\ stack = <<>>
    /\ abandoned # <<>>
    /\ \E j \in 1..Len(subs) :
          /\ subs[j].id \in Range(abandoned)
          /\ subs[j].once
          /\ Live(subs[j])
          /\ Stored(j)

----------------------------------------------------------------------------
\* The pairs of subscriptions that on made for one handler function and one
\* event name.
Twins ==
    {p \in (1..Len(subs)) \X (1..Len(subs)) :
        /\ p[1] < p[2]
        /\ subs[p[1]].h = subs[p[2]].h
        /\ subs[p[1]].eventName = subs[p[2]].eventName
        /\ ~subs[p[1]].once /\ ~subs[p[2]].once}

\* The invocations that the pass of frame f made through subscription i.
InvokedBy(f, i) ==
    {k \in 1..Len(f.visited) : f.visited[k].sub = i /\ f.visited[k].invoked}

\* C32 as stated: subscribing the same handler function to the same event
\* twice makes two independent subscriptions with distinct ids.  An emit
\* that ends, called while both are live and neither is cancelled during
\* the pass, has invoked the handler twice, once through each; once the
\* cancel function of one of the two has been called, that one is out of
\* storage and the other is stored, and an emit called afterwards invokes
\* the handler once, through the other.
C32_SameHandlerTwice ==
    \A p \in Twins :
        LET a == p[1]
            b == p[2]
        IN  /\ subs[a].id # subs[b].id
            /\ (Live(subs[a]) /\ Live(subs[b])) => (Stored(a) /\ Stored(b))
            /\ \A c \in {a, b} : \A d \in {a, b} \ {c} :
                  (Cancelled(subs[c]) /\ ~Cancelled(subs[d])) =>
                      (~Stored(c) /\ Stored(d))
            /\ \A f \in Frames :
                  (f.eventName = subs[a].eventName /\ Finished(f)) =>
                      /\ ({a, b} \subseteq f.live0 /\ Live(subs[a]) /\ Live(subs[b]))
                            => (/\ Cardinality(InvokedBy(f, a)) = 1
                                /\ Cardinality(InvokedBy(f, b)) = 1)
                      /\ \A c \in {a, b} : \A d \in {a, b} \ {c} :
                            (c <= f.subs0 /\ c \notin f.live0
                                /\ d \in f.live0 /\ Live(subs[d]))
                            => (/\ InvokedBy(f, c) = {}
                                /\ Cardinality(InvokedBy(f, d)) = 1)

----------------------------------------------------------------------------
\* The subscription made[i] is stored by its emitter under its event name.
StoredAt(i) ==
    HasKey(EventHandlersOf(emitters[made[i].emitter].handlers, made[i].eventName),
           made[i].id)

StoredFn(i) ==
    GetProperty(EventHandlersOf(emitters[made[i].emitter].handlers,
                                made[i].eventName), made[i].id)

\* The value is an object that once(handler) returns.
IsOnceWrapper(value) ==
    IF "handler" \in DOMAIN value THEN value = onceMarker(value.handler) ELSE FALSE

\* C33: subscribe stores the self-cancelling wrapper for an entry exactly
\* when the entry is an object that once(handler) produced, and the wrapper
\* is around the wrapped handler; for an entry that is a function it stores
\* the function itself, also when the function carries a property type with
\* value "once", and a call of the emit method never makes such a
\* subscription fire for the last time.
C33_OnceIffWrapper ==
    \A i \in 1..Len(made) :
        /\ made[i].fired => IsOnceWrapper(made[i].value)
        /\ StoredAt(i) =>
              /\ StoredFn(i).wrapped = IsOnceWrapper(made[i].value)
              /\ StoredFn(i).handler =
                    IF IsOnceWrapper(made[i].value)
                    THEN made[i].value.handler
                    ELSE made[i].value.fn

\* One subscribe call was given a function tagged "once" and a wrapper; an
\* emit method was called, after which the function is still subscribed.
C33_Witness ==
    /\ delivered # NoDelivery
    /\ \E i, j \in 1..Len(made) :
          /\ made[i].value.typeof = "function"
          /\ "type" \in DOMAIN made[i].value
          /\ StoredAt(i) /\ ~StoredFn(i).wrapped
          /\ \E n \in 1..Len(delivered.invoked) :
                delivered.invoked[n].id = made[i].id
          /\ delivered.method.emitter = made[i].emitter
          /\ delivered.method.eventName = made[i].eventName
          /\ IsOnceWrapper(made[j].value)
          /\ made[j].canceller = made[i].canceller

----------------------------------------------------------------------------
\* The turns of the loop of f in which it applied a handler.
InvokedTurns(f) == {k \in 1..Len(f.visited) : f.visited[k].invoked}

\* C34: the number of handlers that one emit call itself has invoked is at
\* most the number of subscriptions that were live for its event when its
\* dispatch began, whatever the handlers subscribe during the pass.
C34_EmitBounded ==
    \A f \in Frames : Cardinality(InvokedTurns(f)) <= Cardinality(f.live0)

----------------------------------------------------------------------------
\* The subscriptions that the k-th object made, in the order it made them.
MadeBy(k) == {i \in 1..Len(made) : made[i].emitter = k}

\* The object on which the step called subscribe, a cancel function or an
\* emit method; 0 when the step called none of them to any effect.
Acting ==
    IF Len(handed') > Len(handed) THEN handed'[Len(handed')].emitter
    ELSE IF delivered' # NoDelivery THEN delivered'.method.emitter
    ELSE IF \E c \in 1..Len(handed) : handed'[c].calls # handed[c].calls
         THEN handed[CHOOSE c \in 1..Len(handed) :
                         handed'[c].calls # handed[c].calls].emitter
         ELSE 0

\* Every handler the last call of an emit method invoked was stored by the
\* object of that method under the event name of the method, once each.
InvokedOwn ==
    delivered' # NoDelivery =>
        LET eventSubscriptions ==
                EventHandlersOf(emitters[delivered'.method.emitter].handlers,
                                delivered'.method.eventName)
        IN  /\ \A n \in 1..Len(delivered'.invoked) :
                  /\ HasKey(eventSubscriptions, delivered'.invoked[n].id)
                  /\ GetProperty(eventSubscriptions,
                                 delivered'.invoked[n].id).handler =
                        delivered'.invoked[n].h
            /\ \A a, b \in 1..Len(delivered'.invoked) :
                  a # b => delivered'.invoked[a].id # delivered'.invoked[b].id

\* C35: each EventEmitter has its own storage and its own counter, which
\* starts at 0 and counts the subscriptions of that object alone; a step
\* that subscribes, cancels or emits on one object leaves the storage, the
\* counter and the subscriptions of every other object as they are and
\* invokes only handlers stored by that object, also when a cancel function
\* of one object is called while another stores the same id.
C35_InstancesIndependent ==
    /\ [](\A k \in Instances :
            /\ emitters[k].nextSubscriptionIdNumber = Cardinality(MadeBy(k))
            /\ \A i \in MadeBy(k) :
                  made[i].id =
                      SubscriptionId(Cardinality({j \in MadeBy(k) : j < i})))
    /\ [][/\ \A k \in Instances \ {Acting} :
               /\ emitters'[k].handlers = emitters[k].handlers
               /\ emitters'[k].nextSubscriptionIdNumber =
                     emitters[k].nextSubscriptionIdNumber
               /\ \A i \in MadeBy(k) : made'[i] = made[i]
          /\ InvokedOwn]_vars

\* Both objects store subscription_0 for the same string event; the cancel
\* function of the first was called: its subscription is gone and that of
\* the second, with the same id, is still stored.
C35_Witness ==
    \E i, j \in 1..Len(made) :
        /\ made[i].emitter = 1 /\ made[j].emitter = 2
        /\ made[i].id = SubscriptionId(0) /\ made[j].id = made[i].id
        /\ made[i].eventName = made[j].eventName
        /\ ~IsSymbol(made[i].eventName)
        /\ handed[made[i].canceller].calls = 1
        /\ handed[made[j].canceller].calls = 0
        /\ ~StoredAt(i) /\ StoredAt(j)

----------------------------------------------------------------------------
\* The function that subscribe stores for the entry value: the function
\* itself, or the handler inside a once() wrapper.
HandlerOfValue(value) ==
    IF IsOnceWrapper(value) THEN value.handler ELSE value.fn

\* C36: the emit method of an event name is created by the first access to
\* it and kept in the proxy target, so every access returns that one
\* function and no access replaces it; a call of the method reads the
\* storage of its object at the call, so it invokes the handler of every
\* subscription that is live for the event when it is called, also when
\* the method, or the proxy a WithEventEmitter copied, was obtained before
\* the object had any subscription.
C36_EmitMethodCachedAndLate ==
    /\ [](\A m1, m2 \in held :
            (m1.emitter = m2.emitter /\ m1.eventName = m2.eventName) => m1 = m2)
    /\ [](\A m \in held :
            /\ m.eventName \in DOMAIN emitters[m.emitter].target
            /\ emitters[m.emitter].target[m.eventName] = m)
    /\ [][\A k \in Instances : \A e \in DOMAIN emitters[k].target :
              /\ e \in DOMAIN emitters'[k].target
              /\ emitters'[k].target[e] = emitters[k].target[e]]_vars
    /\ [](delivered # NoDelivery =>
            \A i \in delivered.live :
                \E n \in 1..Len(delivered.invoked) :
                    /\ delivered.invoked[n].id = made[i].id
                    /\ delivered.invoked[n].h = HandlerOfValue(made[i].value))

\* An emit method was created while its object had no subscription at
\* all, two subscriptions were made afterwards, and the call of the method
\* that has just been made invoked both.
C36_Witness ==
    /\ delivered # NoDelivery
    /\ delivered.method.createdWith = <<>>
    /\ \A i \in MadeBy(delivered.method.emitter) :
          made[i].eventName = delivered.method.eventName
    /\ Cardinality(delivered.live) = 2
    /\ Len(delivered.invoked) = 2

====
